---- MODULE Spec2Model ----
(***************************************************************************)
(* A model of the GeoPy core:                                              *)
(*   - DailyStationRecord.validateHeader / parseRecord (datasets/EC.py),   *)
(*   - Dataset.addAxis / addVariable / removeAxis / removeVariable,        *)
(*   - Variable.load / unload, Axis.load / unload / updateCoord /          *)
(*     updateLength, and the arithmetic operators (geodata/base.py),       *)
(*   - StationRecords.__init__ / prepareDataset (datasets/EC.py),          *)
(*   - Variable.mask / unmask and Dataset.load / unload / mask / unmask,   *)
(*   - Variable.getArray and the construction of an Axis,                  *)
(*   - getWRFgrid (datasets/WRF.py).                                       *)
(* Each part has its own specification (SpecParser, SpecDataset, SpecAxis, *)
(* SpecVariable, SpecArith, SpecStations, SpecMask, SpecCollective,        *)
(* SpecGetArray, SpecConstruct, SpecGrid); the variables of the other      *)
(* parts stay at their initial value.                                      *)
(***************************************************************************)
EXTENDS Integers, Sequences, FiniteSets, TLC

VARIABLES
  \* ---- parseRecord (EC.py 109-169) ----
  rec,       \* the DailyStationRecord: its fields (EC.py 63-82)
  pc,        \* position of parseRecord: "header", "reading", "returned" or the error raised
  oldyear,   \* EC.py 121
  oldmon,    \* EC.py 121
  z,         \* EC.py 121: offset of the current month in data
  data,      \* EC.py 116-117: the daily array, NaN-filled
  line,      \* the line of the file read last (after EC.py 123: replace and split)
  nlines,    \* number of data lines whose date was accepted so far
  \* ---- Dataset (base.py 554-692) ----
  ds,        \* the Dataset: variables, axes and __dict__
  dres,      \* the last Dataset call: operation, argument, outcome
  \* ---- Variable / Axis (base.py 110-551) ----
  axs,       \* the Axis objects: data, coord, len, shape
  vars_,     \* the Variable objects: data, data_array, shape, dtype, masked, fillValue
  vres,      \* the last Variable/Axis call: operation, arguments, outcome
  \* ---- StationRecords (EC.py 244-366) ----
  sr,        \* the StationRecords under construction: its arguments, z, ns, stationlists
  \* ---- getWRFgrid (WRF.py 47-119) ----
  grid       \* the call of getWRFgrid: its arguments, the files, n, geotransforms, griddefs

parserVars  == <<rec, pc, oldyear, oldmon, z, data, line, nlines>>
datasetVars == <<ds, dres>>
variableVars == <<axs, vars_, vres>>
stationVars == <<sr>>
gridVars == <<grid>>
vars == <<rec, pc, oldyear, oldmon, z, data, line, nlines, ds, dres, axs, vars_, vres, sr, grid>>

NaN  == <<>>    \* a slot of the array holds NaN or <<n>>, the number n in hundredths
None == "None"

(***************************************************************************)
(*                      Part 1: DailyStationRecord                         *)
(***************************************************************************)

\* ---- bounds of the parser model ----
MaxLines == 3          \* data lines read before the model stops reading further ones
FirstYear == 1948      \* the years a data line may carry: FirstYear .. FirstYear+1

\* ---- program constants ----
DaysPerLine == 31      \* EC.py 159, 161
MinValues == 5         \* EC.py 141

\* ---- characters and tokens (a token is a sequence of one-character strings) ----
Digits == {"0","1","2","3","4","5","6","7","8","9"}

IsDigit(c) == c \in Digits

DigitVal(c) ==
  CASE c = "0" -> 0 [] c = "1" -> 1 [] c = "2" -> 2 [] c = "3" -> 3 [] c = "4" -> 4
    [] c = "5" -> 5 [] c = "6" -> 6 [] c = "7" -> 7 [] c = "8" -> 8 [] c = "9" -> 9

\* the number a string of digits denotes
DigitsVal(s) ==
  LET f[i \in 0..Len(s)] == IF i = 0 THEN 0 ELSE 10 * f[i - 1] + DigitVal(s[i])
  IN f[Len(s)]

Pow10(k) == CASE k = 0 -> 1 [] k = 1 -> 10 [] k = 2 -> 100 [] OTHER -> 1000

\* The result of converting a token: a number (in hundredths), a missing value,
\* or the error raised.
Num(n)  == [err |-> None, missing |-> FALSE, val |-> n]
Miss    == [err |-> None, missing |-> TRUE, val |-> 0]
Raise(e) == [err |-> e, missing |-> FALSE, val |-> 0]

\* float(x) of Python for plain decimal strings: [sign] digits [. digits];
\* numbers are kept in hundredths (tokens carry at most two decimals).
Negative(num) == Len(num) > 0 /\ num[1] = "-"

Unsigned(num) == IF Len(num) > 0 /\ num[1] \in {"-", "+"} THEN Tail(num) ELSE num

FirstDot(body) ==
  IF \E i \in 1..Len(body) : body[i] = "."
  THEN CHOOSE i \in 1..Len(body) : body[i] = "." /\ \A j \in 1..(i - 1) : body[j] # "."
  ELSE Len(body) + 1

Decimal(ip, fp, neg) ==
  IF /\ Len(ip) + Len(fp) > 0
     /\ \A i \in 1..Len(ip) : IsDigit(ip[i])
     /\ \A i \in 1..Len(fp) : IsDigit(fp[i])
     /\ Len(fp) <= 2
  THEN Num((IF neg THEN -1 ELSE 1) * (DigitsVal(ip) * 100 + DigitsVal(fp) * Pow10(2 - Len(fp))))
  ELSE Raise("ValueError")

SplitAt(body, d, neg) == Decimal(SubSeq(body, 1, d - 1), SubSeq(body, d + 1, Len(body)), neg)

PyFloat(num) == SplitAt(Unsigned(num), FirstDot(Unsigned(num)), Negative(num))

\* int(x) of Python: [sign] digits
PyInt(num) == Decimal(Unsigned(num), <<>>, Negative(num))

\* num[:lm] == self.missing (EC.py 144)
IsMissing(num, missing) ==
  SubSeq(num, 1, IF Len(missing) < Len(num) THEN Len(missing) ELSE Len(num)) = missing

\* EC.py 146-154, with any trailing character taken for a flag
ConvertAnyFlag(num, r) ==
  IF r.lfloat /\ (\E i \in 1..Len(num) : num[i] = ".") /\ 1 < Len(num)
  THEN IF IsDigit(num[Len(num)]) THEN PyFloat(num)
       ELSE IF IsDigit(num[Len(num) - 1]) THEN PyFloat(SubSeq(num, 1, Len(num) - 1))
            ELSE Raise("ParseError")
  ELSE Raise("ParseError")

\* EC.py 146-154: the conversion of a token that is not missing
Convert(num, r) ==
  IF r.lfloat /\ (\E i \in 1..Len(num) : num[i] = ".") /\ 1 < Len(num)
  THEN IF IsDigit(num[Len(num)]) THEN PyFloat(num)
       ELSE IF IsDigit(num[Len(num) - 1]) /\ num[Len(num)] \in r.flags
            THEN PyFloat(SubSeq(num, 1, Len(num) - 1))
            ELSE Raise("ParseError")
  ELSE IF r.lint /\ 0 < Len(num)
  THEN IF IsDigit(num[Len(num)]) THEN PyInt(num)
       ELSE IF Len(num) < 2 THEN Raise("IndexError")
       ELSE IF IsDigit(num[Len(num) - 1]) /\ num[Len(num)] \in r.flags
            THEN PyInt(SubSeq(num, 1, Len(num) - 1))
            ELSE Raise("ParseError")
  ELSE Raise("ParseError")

\* EC.py 155-156, with the bounds themselves rejected
RangeCheckStrict(n, r) ==
  IF n.err # None THEN n
  ELSE IF n.val <= r.varmin THEN Raise("ParseError")
  ELSE IF n.val >= r.varmax THEN Raise("ParseError")
  ELSE n

\* EC.py 155-156: the range check
RangeCheck(n, r) ==
  IF n.err # None THEN n
  ELSE IF n.val < r.varmin THEN Raise("ParseError")
  ELSE IF n.val > r.varmax THEN Raise("ParseError")
  ELSE n

\* EC.py 144-156: one value token
ParseValue(num, r) ==
  IF IsMissing(num, r.missing) THEN Miss ELSE RangeCheck(Convert(num, r), r)

\* EC.py 115
tlen(r) == ((r.end_year - r.begin_year) * 12 + (r.end_mon - r.begin_mon + 1)) * DaysPerLine

\* EC.py 143-158: the loop over the value tokens of one line. Token i goes to
\* slot zz+i-1; the loop stops at the first token that raises, and a write at or
\* past the end of the array raises IndexError (numpy). vals[i] is the
\* conversion of token i; stop is the token the loop stops at (0: none).
FirstStopUnbounded(vals, zz, n) ==
  LET bad(i) == ~vals[i].missing /\ vals[i].err # None
  IN IF \E i \in 1..Len(vals) : bad(i)
     THEN CHOOSE i \in 1..Len(vals) : bad(i) /\ \A j \in 1..(i - 1) : ~bad(j)
     ELSE 0

FirstStop(vals, zz, n) ==
  LET bad(i) == ~vals[i].missing /\ (vals[i].err # None \/ zz + i - 1 >= n)
  IN IF \E i \in 1..Len(vals) : bad(i)
     THEN CHOOSE i \in 1..Len(vals) : bad(i) /\ \A j \in 1..(i - 1) : ~bad(j)
     ELSE 0

FillUpTo(vals, stop, zz, d) ==
  [data |-> [j \in DOMAIN d |->
               IF /\ j >= zz
                  /\ j - zz + 1 <= Len(vals)
                  /\ (stop = 0 \/ j - zz + 1 < stop)
                  /\ ~vals[j - zz + 1].missing
               THEN <<vals[j - zz + 1].val>> ELSE d[j]],
   zz   |-> IF stop = 0 THEN zz + Len(vals) ELSE zz + stop - 1,
   err  |-> IF stop = 0 THEN None
            ELSE IF vals[stop].err # None THEN vals[stop].err ELSE "IndexError"]

FillLine(vals, zz, d, r) == FillUpTo(vals, FirstStop(vals, zz, tlen(r)), zz, d)

FillValues(toks, zz, d, r) ==
  FillLine([i \in 1..Len(toks) |-> ParseValue(toks[i], r)], zz, d, r)

\* EC.py 159: the count of values
CheckCount(f, zz) ==
  IF f.err # None THEN f
  ELSE IF f.zz # zz + DaysPerLine THEN [f EXCEPT !.err = "ParseError"]
  ELSE f

\* EC.py 141-159: the values of one data line
ParseValuesLenient(toks, zz, d, r) ==
  IF Len(toks) > MinValues
  THEN FillValues(toks, zz, d, r)
  ELSE [data |-> d, zz |-> zz, err |-> None]

ParseValues(toks, zz, d, r) ==
  IF Len(toks) > MinValues
  THEN CheckCount(FillValues(toks, zz, d, r), zz)
  ELSE [data |-> d, zz |-> zz, err |-> None]

\* EC.py 127-129 accepting any later date
DateOKLater(year, mon, oy, om) ==
  \/ year = oy /\ mon > om
  \/ year > oy

\* EC.py 127-129: the continuity check
DateOK(year, mon, oy, om) ==
  \/ year = oy /\ mon = om + 1
  \/ year = oy + 1 /\ om = 12 /\ mon = 1

\* ---- the header line (EC.py 86-99) ----
\* The header is modelled after split(','), strip() and lower(): six fields.
\* "s in field" (substring) is tabulated for the field values the model uses.
Contains(field, s) ==
  \/ field = s
  \/ field = "not joined" /\ s \in {"not", "joined"}
  \/ field = "daily maximum temperature" /\ s \in {"daily", "maximum temperature"}
  \/ field = "monthly maximum temperature" /\ s = "maximum temperature"
  \/ field = "daily precipitation" /\ s = "daily"
  \/ field = "deg c (x10)" /\ s = "deg c"

validateHeader(r, h) ==
  IF r.id # h[1] THEN FALSE
  ELSE IF r.name # h[2] THEN FALSE
  ELSE IF r.prov # h[3] THEN FALSE
  ELSE IF ~Contains(h[4], "joined") THEN FALSE
  ELSE IF r.joined /\ Contains(h[4], "not") THEN FALSE
  ELSE IF ~r.joined /\ ~Contains(h[4], "not") THEN FALSE
  ELSE IF ~Contains(h[5], "daily") THEN FALSE
  ELSE IF ~Contains(h[5], r.variable) THEN FALSE
  ELSE IF ~Contains(h[6], r.units) THEN FALSE
  ELSE TRUE

\* ---- inputs of the parser model ----
TokGood == <<"1","5",".","3">>
TokFlag == <<"1","5",".","3","E">>
TokMiss == <<"-","9","9","9","9",".","9">>
TokHigh == <<"1","5","0",".","0">>
TokBadFlag == <<"1","5",".","3","X">>
TokMax == <<"1","0","0",".","0">>
TokMin == <<"-","1","0","0",".","0">>
TokLow == <<"-","1","0","0",".","1">>
Tokens ==
  {TokGood, TokFlag, TokMiss, TokHigh, TokBadFlag, TokMax, TokMin, TokLow}

\* A data line: year, month, n value tokens, all TokGood but token p (p = 0: none).
Counts == {0, MinValues, MinValues + 1, DaysPerLine - 1, DaysPerLine, DaysPerLine + 1}
Months == {1, 11, 12, 13}
DataLines ==
  { [kind |-> "data", year |-> y, mon |-> m, n |-> n, p |-> p, tok |-> t] :
      y \in {FirstYear, FirstYear + 1}, m \in Months, n \in Counts,
      p \in {0, 1, DaysPerLine, DaysPerLine + 1}, t \in Tokens }

WellFormed(l) == IF l.p = 0 THEN l.tok = TokGood ELSE l.p <= l.n /\ l.tok # TokGood

LineToks(l) == [i \in 1..l.n |-> IF i = l.p THEN l.tok ELSE TokGood]

NoLine == [kind |-> "none", year |-> 0, mon |-> 0, n |-> 0, p |-> 0, tok |-> <<>>]
OtherLine(k) == [NoLine EXCEPT !.kind = k]

GoodHeader == <<"5010640", "cypress river", "mb", "not joined", "daily maximum temperature", "deg c (x10)">>
Headers ==
  { GoodHeader,
    [GoodHeader EXCEPT ![1] = "250m001"],
    [GoodHeader EXCEPT ![2] = "mould bay"],
    [GoodHeader EXCEPT ![3] = "nt"],
    [GoodHeader EXCEPT ![4] = "joined"],
    [GoodHeader EXCEPT ![4] = "merged"],
    [GoodHeader EXCEPT ![5] = "monthly maximum temperature"],
    [GoodHeader EXCEPT ![5] = "daily precipitation"],
    [GoodHeader EXCEPT ![6] = "mm"] }

\* The record of the test in EC.py 407-411 (TempDef, EC.py 217-224), with a short period.
Records ==
  { [id |-> "5010640", name |-> "cypress river", prov |-> "mb", joined |-> FALSE,
     variable |-> "maximum temperature", units |-> "deg c",
     lfloat |-> TRUE, lint |-> FALSE,
     missing |-> TokMiss, flags |-> {"E", "a"}, varmin |-> -10000, varmax |-> 10000,
     begin_year |-> FirstYear, begin_mon |-> 11, end_year |-> e[1], end_mon |-> e[2]] :
       e \in {<<FirstYear, 11>>, <<FirstYear, 12>>, <<FirstYear + 1, 1>>} }

ParserInit ==
  /\ sr = None
  /\ grid = None
  /\ rec \in Records
  /\ pc = "header" /\ oldyear = 0 /\ oldmon = 0 /\ z = 0
  /\ data = <<>> /\ line = NoLine /\ nlines = 0
  /\ ds = None /\ dres = None
  /\ axs = None /\ vars_ = None /\ vres = None

\* EC.py 112-121: open the file, validate the header, allocate the array
ReadHeader ==
  /\ pc = "header"
  /\ \E h \in Headers :
       IF validateHeader(rec, h)
       THEN /\ pc' = "reading"
            /\ data' = [i \in 0..(tlen(rec) - 1) |-> NaN]
            /\ oldyear' = rec.begin_year
            /\ oldmon' = rec.begin_mon - 1
            /\ z' = 0
       ELSE /\ pc' = "ParseError"
            /\ UNCHANGED <<data, oldyear, oldmon, z>>
  /\ line' = OtherLine("header")
  /\ UNCHANGED <<rec, nlines>>
  /\ UNCHANGED <<datasetVars, variableVars, stationVars, gridVars>>

\* EC.py 130, 141-161: the line's date is accepted; f is the outcome of its values
StoreLine(l, f) ==
  /\ oldyear' = l.year
  /\ oldmon' = l.mon
  /\ nlines' = nlines + 1
  /\ data' = f.data
  /\ IF f.err # None
     THEN pc' = f.err /\ z' = z
     ELSE pc' = "reading" /\ z' = z + DaysPerLine

\* EC.py 124-161: one data line (both date tokens are digits)
ReadDataLine ==
  /\ pc = "reading"
  /\ nlines < MaxLines
  /\ \E l \in DataLines :
       /\ WellFormed(l)
       /\ line' = l
       /\ IF ~DateOK(l.year, l.mon, oldyear, oldmon)
          THEN /\ pc' = "DateError"
               /\ UNCHANGED <<oldyear, oldmon, z, data, nlines>>
          ELSE StoreLine(l, ParseValues(LineToks(l), z, data, rec))
  /\ UNCHANGED rec
  /\ UNCHANGED <<datasetVars, variableVars, stationVars, gridVars>>

\* EC.py 162: the repeated title line 'Year Mo ...' is skipped
ReadTitleLine ==
  /\ pc = "reading"
  /\ line' = OtherLine("title")
  /\ UNCHANGED <<rec, pc, oldyear, oldmon, z, data, nlines>>
  /\ UNCHANGED <<datasetVars, variableVars, stationVars, gridVars>>

\* EC.py 162-163: any other line with two tokens or more
ReadOtherLine ==
  /\ pc = "reading"
  /\ line' = OtherLine("other")
  /\ pc' = "ParseError"
  /\ UNCHANGED <<rec, oldyear, oldmon, z, data, nlines>>
  /\ UNCHANGED <<datasetVars, variableVars, stationVars, gridVars>>

\* EC.py 124: ll[0], ll[1] of a line with fewer than two tokens
ReadShortLine ==
  /\ pc = "reading"
  /\ line' = OtherLine("short")
  /\ pc' = "IndexError"
  /\ UNCHANGED <<rec, oldyear, oldmon, z, data, nlines>>
  /\ UNCHANGED <<datasetVars, variableVars, stationVars, gridVars>>

\* EC.py 164, with the check left out
atEndUnchecked(zz, r) == "returned"

\* EC.py 164-169: the check at the end of the file
atEnd(zz, r) == IF zz < tlen(r) THEN "ParseError" ELSE "returned"

\* EC.py 164-169: end of file
EndOfFile ==
  /\ pc = "reading"
  /\ line' = OtherLine("eof")
  /\ pc' = atEnd(z, rec)
  /\ UNCHANGED <<rec, oldyear, oldmon, z, data, nlines>>
  /\ UNCHANGED <<datasetVars, variableVars, stationVars, gridVars>>

ParserNext ==
  \/ ReadHeader
  \/ ReadDataLine
  \/ ReadTitleLine
  \/ ReadOtherLine
  \/ ReadShortLine
  \/ EndOfFile

SpecParser == ParserInit /\ [][ParserNext]_vars

\* ---- claims about parseRecord ----

NextMonth(y, m) == IF m = 12 THEN <<y + 1, 1>> ELSE <<y, m + 1>>

\* C1: the (year, month) of every data line is exactly one calendar month after
\* that of the previous data line (December of y followed by January of y+1);
\* any other date raises DateError.
C1_MonthContinuity ==
  [][ (pc = "reading" /\ line'.kind = "data" /\ nlines >= 1)
        => ((pc' # "DateError") <=> (<<line'.year, line'.mon>> = NextMonth(oldyear, oldmon))) ]_vars

\* C2 as stated: a data line is accepted only if it carries exactly 31 value
\* tokens; any other number of value tokens, 5 or fewer included, raises ParseError.
C2_Exactly31OrParseError ==
  [][ (pc = "reading" /\ line'.kind = "data" /\ pc' # "DateError")
        => /\ (pc' = "reading" => line'.n = DaysPerLine)
           /\ (line'.n # DaysPerLine => pc' = "ParseError") ]_vars

\* C2 amended: a data line with more than 5 value tokens is accepted only if it
\* carries exactly 31 of them, and with any other number above 5 parseRecord
\* fails; a data line with 5 or fewer value tokens is accepted, its values are
\* not read and its 31 slots stay as they were.
C2_CountAbove5Is31 ==
  [][ (pc = "reading" /\ line'.kind = "data" /\ pc' # "DateError")
        => /\ (line'.n <= MinValues => pc' = "reading" /\ data' = data /\ z' = z + DaysPerLine)
           /\ (line'.n > MinValues /\ line'.n # DaysPerLine
                 => pc' \in {"ParseError", "IndexError", "ValueError"})
           /\ (pc' = "reading" => line'.n <= MinValues \/ line'.n = DaysPerLine) ]_vars

\* a line of 5 value tokens, the first of them out of range, was accepted
C2_ShortLineAccepted ==
  /\ pc = "reading" /\ line.kind = "data"
  /\ line.n = MinValues /\ line.p = 1 /\ line.tok = TokHigh

\* the step reads a data line whose date is accepted
DataLineRead == pc = "reading" /\ line'.kind = "data" /\ pc' # "DateError"

\* the line read carries 31 value tokens, the special one among them, and its
\* month lies inside the array
FullLineInArray ==
  /\ line'.n = DaysPerLine
  /\ line'.p \in 1..DaysPerLine
  /\ z + DaysPerLine <= tlen(rec)

\* C11: for a float-typed record, a token that matches the missing sentinel leaves
\* its slot NaN, a decimal number followed by one legal flag character yields
\* that number ('15.3E' gives 15.3), and a token whose trailing character is not
\* a legal flag raises ParseError.
C11_FlagsAndMissing ==
  [][ (DataLineRead /\ FullLineInArray)
        => /\ line'.tok = TokMiss
                => pc' = "reading" /\ data'[z + line'.p - 1] = NaN
           /\ line'.tok = TokFlag
                => pc' = "reading" /\ data'[z + line'.p - 1] = <<1530>>
           /\ line'.tok = TokBadFlag => pc' = "ParseError" ]_vars

\* the line read last ended in '15.3E', stored as 15.3 in the last slot of its month
C11_FlagStripped ==
  /\ pc = "reading" /\ line.kind = "data"
  /\ line.n = DaysPerLine /\ line.p = DaysPerLine /\ line.tok = TokFlag
  /\ z >= DaysPerLine
  /\ z <= tlen(rec)
  /\ data[z - 1] = <<1530>>

\* C12 as stated: a value token of any data line that parses to a number below
\* varmin or above varmax raises ParseError; the bounds themselves are accepted.
C12_OutOfRangeRaises ==
  [][ (DataLineRead /\ line'.p >= 1)
        => /\ line'.tok \in {TokHigh, TokLow} => pc' = "ParseError"
           /\ (line'.tok = TokMax /\ FullLineInArray)
                => pc' = "reading" /\ data'[z + line'.p - 1] = <<rec.varmax>>
           /\ (line'.tok = TokMin /\ FullLineInArray)
                => pc' = "reading" /\ data'[z + line'.p - 1] = <<rec.varmin>> ]_vars

\* C12 as the code has it: on a data line with more than 5 value tokens, a token
\* out of range raises ParseError unless the write of an earlier token past the
\* end of the array has failed first; on a line with 5 or fewer value tokens
\* nothing is parsed and the token passes; the bounds themselves are accepted.
C12_ParsedOutOfRangeRaises ==
  [][ (DataLineRead /\ line'.p >= 1)
        => /\ (/\ line'.tok \in {TokHigh, TokLow}
               /\ line'.n > MinValues
               /\ (line'.p = 1 \/ z + line'.p - 2 < tlen(rec)))
                => pc' = "ParseError"
           /\ (/\ line'.tok \in {TokHigh, TokLow}
               /\ line'.n > MinValues
               /\ line'.p > 1 /\ z + line'.p - 2 >= tlen(rec))
                => pc' = "IndexError"
           /\ (line'.tok \in {TokHigh, TokLow} /\ line'.n <= MinValues)
                => pc' = "reading" /\ data' = data
           /\ (line'.tok = TokMax /\ FullLineInArray)
                => pc' = "reading" /\ data'[z + line'.p - 1] = <<rec.varmax>>
           /\ (line'.tok = TokMin /\ FullLineInArray)
                => pc' = "reading" /\ data'[z + line'.p - 1] = <<rec.varmin>> ]_vars

\* a line of 31 values has failed on its last token, 150.0
C12_AboveMaximumRaised ==
  /\ pc = "ParseError" /\ line.kind = "data"
  /\ line.n = DaysPerLine /\ line.p = DaysPerLine /\ line.tok = TokHigh

AfterEnd(l, r) ==
  l.year > r.end_year \/ (l.year = r.end_year /\ l.mon > r.end_mon)

\* C28: the array has the length ((end_year-begin_year)*12 +
\* (end_mon-begin_mon+1))*31 from its allocation to the return; a data line
\* changes it only at the slots of its own value tokens and never at or beyond
\* that length: a line beyond it whose first value is not missing ends
\* parseRecord with IndexError and leaves the array as it was.
C28_WritesInsideArray ==
  /\ [](pc \in {"reading", "returned"} => DOMAIN data = 0..(tlen(rec) - 1))
  /\ [][ pc = "reading"
           => /\ DOMAIN data' = DOMAIN data
              /\ \A j \in DOMAIN data :
                   data'[j] # data[j] => j \in z..(z + line'.n - 1) /\ j < tlen(rec) ]_vars
  /\ [][ (/\ pc = "reading" /\ line'.kind = "data" /\ pc' # "DateError"
          /\ z >= tlen(rec) /\ line'.n > MinValues /\ line'.p # 1)
           => pc' = "IndexError" /\ data' = data ]_vars

\* a line dated after the end of the record, with values, has ended
\* parseRecord with IndexError
C28_LineAfterEndRejected ==
  /\ pc = "IndexError" /\ line.kind = "data"
  /\ AfterEnd(line, rec)
  /\ line.n = DaysPerLine /\ line.p = 0
  /\ z = tlen(rec)
  /\ \A j \in DOMAIN data : j < DaysPerLine => data[j] # NaN

\* the date of the line is earlier than the begin of the record
BeforeBegin(l, r) ==
  l.year < r.begin_year \/ (l.year = r.begin_year /\ l.mon < r.begin_mon)

AxisObjs == {"X1", "X2", "Y"}
VarObjs  == {"V", "V2", "W", "U", "VX"}
Objs     == AxisObjs \cup VarObjs

ObjName(o) ==
  CASE o = "X1" -> "x" [] o = "X2" -> "x" [] o = "Y" -> "y"
    [] o = "V" -> "v" [] o = "V2" -> "v" [] o = "W" -> "w" [] o = "U" -> "u"
    [] o = "VX" -> "x"
    [] o \in {"STN", "NAMES"} -> "N/A"

ObjAxes(o) ==
  CASE o \in AxisObjs \cup {"STN"} -> <<o>>
    [] o = "NAMES" -> <<"STN">>
    [] o = "V"  -> <<"X1", "Y">>
    [] o = "V2" -> <<"Y">>
    [] o = "W"  -> <<"X1">>
    [] o = "U"  -> <<"Y", "X2">>
    [] o = "VX" -> <<"X1">>

Names == {ObjName(o) : o \in Objs}

\* isinstance(x, Axis), isinstance(x, Variable), isinstance(x, basestring)
IsAxis(x) == x \in AxisObjs \cup {"STN"}
IsVariable(x) == x \in Objs \cup {"STN", "NAMES"}
IsString(x) == x \in Names

\* Variable.hasAxis(axis) for an object (base.py 221-223): by identity
hasAxis(v, ax) == \E i \in 1..Len(ObjAxes(v)) : ObjAxes(v)[i] = ax

\* ---- dictionaries: functions on a finite set of keys ----
Put(d, k, x) == [j \in DOMAIN d \cup {k} |-> IF j = k THEN x ELSE d[j]]
Del(d, k) == [j \in DOMAIN d \ {k} |-> d[j]]
Has(d, k) == k \in DOMAIN d
Values(d) == {d[k] : k \in DOMAIN d}

\* the outcome of a call: the value returned ("True", "False") or the exception raised
Ret(d, b) == [ds |-> d, out |-> IF b THEN "True" ELSE "False"]
Exc(d, e) == [ds |-> d, out |-> e]
Exceptions ==
  {"AssertionError", "NameError", "KeyError", "AttributeError", "TypeError", "IndexError"}
Failed(out) == out \in Exceptions

\* base.py 560-578: Dataset(varlist=[])
EmptyDataset ==
  [variables |-> <<>>, axes |-> <<>>,
   dict |-> [k \in {"variables", "axes", "atts"} |-> "attribute"]]

\* base.py 580-590. The message of the assertion of line 588 names 'var', which
\* is not defined in addAxis: raising it ends in a NameError.
addAxisNoIdentityCheck(d, ax) ==
  IF ~IsAxis(ax) THEN Exc(d, "AssertionError")
  ELSE IF ~Has(d.axes, ObjName(ax))
  THEN IF Has(d.dict, ObjName(ax)) THEN Exc(d, "AssertionError")
       ELSE Ret([d EXCEPT !.axes = Put(d.axes, ObjName(ax), ax),
                          !.dict = Put(d.dict, ObjName(ax), ax)], TRUE)
  ELSE Ret(d, TRUE)

addAxis(d, ax) ==
  IF ~IsAxis(ax) THEN Exc(d, "AssertionError")
  ELSE IF ~Has(d.axes, ObjName(ax))
  THEN IF Has(d.dict, ObjName(ax)) THEN Exc(d, "AssertionError")
       ELSE Ret([d EXCEPT !.axes = Put(d.axes, ObjName(ax), ax),
                          !.dict = Put(d.dict, ObjName(ax), ax)], TRUE)
  ELSE IF ax # d.axes[ObjName(ax)] THEN Exc(d, "NameError")
  ELSE Ret(d, Has(d.axes, ObjName(ax)))

\* base.py 597: for ax in var.axes: self.addAxis(ax); the first exception ends the loop
addAxes(d, axes) ==
  LET f[i \in 0..Len(axes)] ==
        IF i = 0 THEN Ret(d, TRUE)
        ELSE IF Failed(f[i - 1].out) THEN f[i - 1]
        ELSE addAxis(f[i - 1].ds, axes[i])
  IN f[Len(axes)]

\* base.py 598-602
storeVariable(r, var) ==
  IF Failed(r.out) THEN r
  ELSE Ret([r.ds EXCEPT !.variables = Put(r.ds.variables, ObjName(var), var),
                        !.dict = Put(r.ds.dict, ObjName(var), var)], TRUE)

\* base.py 592-602
addVariable(d, var) ==
  IF ~IsVariable(var) THEN Exc(d, "AssertionError")
  ELSE IF Has(d.dict, ObjName(var)) THEN Exc(d, "AssertionError")
  ELSE storeVariable(addAxes(d, ObjAxes(var)), var)

\* base.py 608-617, for the Axis object ax
removeAxisObject(d, ax) ==
  IF ~IsAxis(ax) THEN Exc(d, "AssertionError")
  ELSE IF Has(d.axes, ObjName(ax)) /\ ~(\E v \in Values(d.variables) : hasAxis(v, ax))
  THEN IF Has(d.dict, ObjName(ax))
       THEN Ret([d EXCEPT !.axes = Del(d.axes, ObjName(ax)),
                          !.dict = Del(d.dict, ObjName(ax))], TRUE)
       ELSE Exc([d EXCEPT !.axes = Del(d.axes, ObjName(ax))], "KeyError")
  ELSE Ret(d, ~Has(d.axes, ObjName(ax)))

\* base.py 604-617
removeAxis(d, ax) ==
  IF IsString(ax)
  THEN IF Has(d.axes, ax) THEN removeAxisObject(d, d.axes[ax]) ELSE Exc(d, "KeyError")
  ELSE removeAxisObject(d, ax)

\* base.py 619-628. Line 621 reads self.variable, which a Dataset does not have.
removeVariable(d, var) ==
  IF IsString(var) THEN Exc(d, "AttributeError")
  ELSE IF ~IsVariable(var) THEN Exc(d, "AssertionError")
  ELSE IF Has(d.variables, ObjName(var))
  THEN IF Has(d.dict, ObjName(var))
       THEN Ret([d EXCEPT !.variables = Del(d.variables, ObjName(var)),
                          !.dict = Del(d.dict, ObjName(var))], TRUE)
       ELSE Exc([d EXCEPT !.variables = Del(d.variables, ObjName(var))], "KeyError")
  ELSE Ret(d, ~Has(d.variables, ObjName(var)))

\* ---- the Dataset as a state machine: any call, any argument ----
DatasetInit ==
  /\ sr = None
  /\ grid = None
  /\ ds = EmptyDataset
  /\ dres = [op |-> "Dataset", arg |-> None, out |-> "True", tick |-> 0]
  /\ rec = None /\ pc = "idle" /\ oldyear = 0 /\ oldmon = 0 /\ z = 0
  /\ data = <<>> /\ line = NoLine /\ nlines = 0
  /\ axs = None /\ vars_ = None /\ vres = None

\* the record of the call op(arg); tick tells two equal calls in a row apart
Call(op, arg, out) == [op |-> op, arg |-> arg, out |-> out, tick |-> 1 - dres.tick]

AddAxis ==
  \E a \in Objs :
    LET r == addAxis(ds, a)
    IN /\ ds' = r.ds
       /\ dres' = Call("addAxis", a, r.out)
       /\ UNCHANGED <<parserVars, variableVars, stationVars, gridVars>>

AddVariable ==
  \E v \in Objs :
    LET r == addVariable(ds, v)
    IN /\ ds' = r.ds
       /\ dres' = Call("addVariable", v, r.out)
       /\ UNCHANGED <<parserVars, variableVars, stationVars, gridVars>>

RemoveAxis ==
  \E a \in Objs \cup Names :
    LET r == removeAxis(ds, a)
    IN /\ ds' = r.ds
       /\ dres' = Call("removeAxis", a, r.out)
       /\ UNCHANGED <<parserVars, variableVars, stationVars, gridVars>>

RemoveVariable ==
  \E v \in Objs \cup Names :
    LET r == removeVariable(ds, v)
    IN /\ ds' = r.ds
       /\ dres' = Call("removeVariable", v, r.out)
       /\ UNCHANGED <<parserVars, variableVars, stationVars, gridVars>>

DatasetNext ==
  \/ AddAxis
  \/ AddVariable
  \/ RemoveAxis
  \/ RemoveVariable

SpecDataset == DatasetInit /\ [][DatasetNext]_vars

\* ---- claims about the Dataset ----

\* some axis of the object v has the name of a registered Axis that is another object
ClashingAxis(d, v) ==
  \E i \in 1..Len(ObjAxes(v)) :
    /\ Has(d.axes, ObjName(ObjAxes(v)[i]))
    /\ d.axes[ObjName(ObjAxes(v)[i])] # ObjAxes(v)[i]

\* the Variables registered in d that have the Axis object a among their axes
Referencing(d, a) == {v \in Values(d.variables) : hasAxis(v, a)}

\* C3: adding a Variable one of whose axes has the name of a registered but
\* distinct Axis fails and registers no Variable; after a successful addVariable
\* or addAxis every axis of the argument is registered, under its own name only.
C3_DistinctAxisRejected ==
  [][ dres'.op \in {"addVariable", "addAxis"} /\ dres'.arg \in Objs
        => /\ ClashingAxis(ds, dres'.arg)
                => Failed(dres'.out) /\ ds'.variables = ds.variables
           /\ dres'.out = "True"
                => \A i \in 1..Len(ObjAxes(dres'.arg)) :
                     {n \in DOMAIN ds'.axes : ds'.axes[n] = ObjAxes(dres'.arg)[i]}
                       = {ObjName(ObjAxes(dres'.arg)[i])} ]_vars

\* addVariable(U) was refused: its axis X2 has the name of the registered X1
C3_Rejected ==
  /\ dres.op = "addVariable" /\ dres.arg = "U" /\ Failed(dres.out)
  /\ Has(ds.axes, "x") /\ ds.axes["x"] = "X1"
  /\ "W" \in Values(ds.variables)

\* C4: no name is at once the name of a registered Axis and of a registered Variable.
C4_NamesDisjoint == DOMAIN ds.axes \cap DOMAIN ds.variables = {}

\* C5: removeAxis does not remove an Axis that a registered Variable references:
\* the axis stays registered and the call returns False; an Axis that no
\* registered Variable references is removed and the call returns True.
C5_ReferencedAxisKept ==
  [][ dres'.op = "removeAxis"
        => /\ \A n \in DOMAIN ds.axes :
                Referencing(ds, ds.axes[n]) # {}
                  => Has(ds'.axes, n) /\ ds'.axes[n] = ds.axes[n]
           /\ \A n \in DOMAIN ds.axes :
                dres'.arg \in {n, ds.axes[n]}
                  => IF Referencing(ds, ds.axes[n]) # {}
                     THEN dres'.out = "False"
                     ELSE dres'.out = "True" /\ ~Has(ds'.axes, n) ]_vars

\* C18: removeVariable takes a registered Variable, as the object or by its
\* name; either way the variable is not registered afterwards and the call
\* returns True.
C18_RemovedByObjectOrName ==
  [][ (/\ dres'.op = "removeVariable"
       /\ \E n \in DOMAIN ds.variables : dres'.arg \in {n, ds.variables[n]})
        => /\ dres'.out = "True"
           /\ \A n \in DOMAIN ds.variables :
                dres'.arg \in {n, ds.variables[n]} => ~Has(ds'.variables, n) ]_vars

\* C26: after any calls of addVariable, addAxis, removeVariable and removeAxis,
\* every Axis of a registered Variable is registered under its name, as the
\* identical object.
C26_AxesOfVariablesRegistered ==
  \A v \in Values(ds.variables) :
    \A i \in 1..Len(ObjAxes(v)) :
      /\ Has(ds.axes, ObjName(ObjAxes(v)[i]))
      /\ ds.axes[ObjName(ObjAxes(v)[i])] = ObjAxes(v)[i]

\* C27: an addVariable that fails leaves the registered axes and variables
\* as they were before the call.
C27_FailedAddChangesNothing ==
  [][ (dres'.op = "addVariable" /\ Failed(dres'.out))
        => ds'.axes = ds.axes /\ ds'.variables = ds.variables ]_vars

(***************************************************************************)
(*                       Part 3: Variable and Axis                         *)
(***************************************************************************)

\* ---- bound of the Variable model ----
MaxSize == 2           \* sizes of array dimensions: 1 .. MaxSize

\* an optional value: None, or the value
Nil == <<>>
Some(x) == <<x>>
Get(o) == o[1]

\* ---- values handed to the methods ----
\* a numpy array: its shape, dtype and cells (row-major); other Python values
\* have a kind of their own
Size(shape) ==
  IF Len(shape) = 0 THEN 1
  ELSE IF Len(shape) = 1 THEN shape[1]
  ELSE shape[1] * shape[2]

Value(kind, shape, dtype, cells) ==
  [kind |-> kind, shape |-> shape, dtype |-> dtype, cells |-> cells]

Filled(shape, dtype, c) == Value("ndarray", shape, dtype, [i \in 1..Size(shape) |-> c])
Vector(cells, dtype) == Value("ndarray", <<Len(cells)>>, dtype, cells)
NoneArg == Value("None", <<>>, "", <<>>)
Tuple(items) == Value("tuple", <<Len(items)>>, "", items)
List(items) == Value("list", <<Len(items)>>, "", items)
Scalar(x) == Value("number", <<>>, "", <<x>>)
String(x) == Value("str", <<>>, "", <<x>>)

\* a shape attribute: data.shape is a tuple, the shape taken from the axes
\* (base.py 161) is a list, and a tuple never equals a list
TupleShape(dims) == [seq |-> "tuple", dims |-> dims]
ListShape(dims) == [seq |-> "list", dims |-> dims]

\* ---- objects ----
\* base.py 146-183, 497-498: the attributes of a Variable; an Axis has coord and
\* len as well, and is its own only axis
Object(id, name, units, axes, atts) ==
  [id |-> id, name |-> name, units |-> units, axes |-> axes, atts |-> atts,
   data |-> FALSE, data_array |-> Nil, shape |-> Nil, dtype |-> "",
   masked |-> FALSE, fillValue |-> Nil, coord |-> Nil, len |-> 0]

Done(o) == [obj |-> o, out |-> "None"]
Throw(o, e) == [obj |-> o, out |-> e]

\* base.py 545-551
updateLengthUnchecked(ax, length) ==
  IF ax.data THEN Done(ax) ELSE Done([ax EXCEPT !.len = length])

updateLength(ax, length) ==
  IF ax.data
  THEN IF length = Get(ax.shape).dims[1] THEN Done(ax) ELSE Throw(ax, "AssertionError")
  ELSE Done([ax EXCEPT !.len = length])

\* base.py 267-281, with mask=None and fillValue=None: the array is attached
\* before the number of its dimensions is checked
attach(o, d) ==
  IF d.kind # "ndarray" THEN Throw(o, "AssertionError")
  ELSE IF Len(d.shape) # Len(o.axes)
  THEN Throw([o EXCEPT !.data_array = Some(d), !.data = TRUE,
                       !.shape = Some(TupleShape(d.shape))], "AssertionError")
  ELSE Done([o EXCEPT !.data_array = Some(d), !.data = TRUE,
                      !.shape = Some(TupleShape(d.shape)), !.dtype = d.dtype,
                      !.fillValue = IF o.masked THEN Some("default") ELSE @])

\* base.py 286-287: for ax,n in zip(self.axes,self.shape): ax.updateLength(n);
\* the first exception ends the loop
updateLengths(as, axes, dims) ==
  LET f[i \in 0..Len(axes)] ==
        IF i = 0 THEN [axs |-> as, out |-> "None"]
        ELSE IF Failed(f[i - 1].out) THEN f[i - 1]
        ELSE [axs |-> [f[i - 1].axs EXCEPT
                         ![axes[i]] = updateLength(f[i - 1].axs[axes[i]], dims[i]).obj],
              out |-> updateLength(f[i - 1].axs[axes[i]], dims[i]).out]
  IN f[Len(axes)]

\* the state of the objects: the Axis objects and the Variable objects
Heap(as, vs, out) == [axs |-> as, vars |-> vs, out |-> out]

\* base.py 265-287: Variable.load(data) of the Variable v; r is attach's outcome
loadAxes(h, v, r) ==
  IF Failed(r.out) THEN Heap(h.axs, [h.vars EXCEPT ![v] = r.obj], r.out)
  ELSE Heap(updateLengths(h.axs, r.obj.axes, Get(r.obj.shape).dims).axs,
            [h.vars EXCEPT ![v] = r.obj],
            updateLengths(h.axs, r.obj.axes, Get(r.obj.shape).dims).out)

loadVariable(h, v, d) == loadAxes(h, v, attach(h.vars[v], d))

\* base.py 505-511: Axis.load; the axis is its own axis, so that line 287
\* compares the new shape with itself
setCoord(r) ==
  IF Failed(r.out) THEN r
  ELSE IF Failed(updateLength(r.obj, Get(r.obj.shape).dims[1]).out)
  THEN updateLength(r.obj, Get(r.obj.shape).dims[1])
  ELSE Done([r.obj EXCEPT !.coord = r.obj.data_array,
                          !.len = Get(r.obj.data_array).shape[1]])

loadAxis(ax, d) == setCoord(attach(ax, d))

\* base.py 168, 232-234: the number of dimensions, which len(var) returns
ndim(o) == Len(o.axes)
len(o) == ndim(o)

\* base.py 289-294 and 513-518
unloadDroppingShape(o) ==
  Done([o EXCEPT !.data_array = Nil, !.data = FALSE, !.fillValue = Nil, !.coord = Nil,
                 !.shape = Nil])

unload(o) ==
  Done([o EXCEPT !.data_array = Nil, !.data = FALSE, !.fillValue = Nil, !.coord = Nil])

\* numpy.linspace(start, stop, num) for the cases with whole-numbered points
Linspace(start, stop, num) ==
  Vector([i \in 1..num |->
            IF num = 1 THEN start ELSE start + ((i - 1) * (stop - start)) \div (num - 1)],
         "float64")

\* base.py 529-536 with np.linspace for the tuples of three entries alone
asCoordTripleOnly(c) ==
  IF c.kind = "tuple" /\ Len(c.cells) = 3
  THEN Linspace(c.cells[1], c.cells[2], c.cells[3])
  ELSE IF c.kind = "ndarray" /\ Len(c.shape) = 1 THEN c
  ELSE IF c.kind \in {"tuple", "list"} THEN Vector(c.cells, "int64")
  ELSE Value("TypeError", <<>>, "", <<>>)

\* base.py 529-536: the coordinate vector made of the argument
asCoord(c) ==
  IF c.kind = "tuple" /\ 0 < Len(c.cells) /\ Len(c.cells) < 4
  THEN IF Len(c.cells) = 1 THEN Value("TypeError", <<>>, "", <<>>)
       ELSE IF Len(c.cells) = 2 THEN Linspace(c.cells[1], c.cells[2], 50)
       ELSE Linspace(c.cells[1], c.cells[2], c.cells[3])
  ELSE IF c.kind = "ndarray" /\ Len(c.shape) = 1 THEN c
  ELSE IF c.kind \in {"tuple", "list"} THEN Vector(c.cells, "int64")
  ELSE Value("TypeError", <<>>, "", <<>>)

\* base.py 521-538
loadCoord(ax, arr) ==
  IF arr.kind = "TypeError" THEN Throw(ax, "TypeError") ELSE loadAxis(ax, arr)

updateCoord(ax, c) ==
  IF c.kind = "None" THEN unload(ax) ELSE loadCoord(ax, asCoord(c))

\* base.py 492-503: Axis(name, units, length, coord); the shape is taken from
\* the length by Variable.__init__ (base.py 160-161)
initAxis(o, length, c) ==
  IF c.kind # "None" THEN updateCoord(o, c) ELSE updateLength(o, length)

Axis(id, name, units, length, c) ==
  initAxis([Object(id, name, units, <<id>>,
                   [k \in {"name", "units"} |-> IF k = "name" THEN name ELSE units])
              EXCEPT !.len = length,
                     !.shape = IF length # 0 THEN Some(ListShape(<<length>>)) ELSE Nil],
           length, c).obj

\* base.py 136-186: Variable(name, units, axes, atts) without data; as holds the axes
Variable(id, name, units, axes, atts, as) ==
  [Object(id, name, units, axes, atts) EXCEPT
     !.shape = IF \A i \in 1..Len(axes) : as[axes[i]].len # 0
               THEN Some(ListShape([i \in 1..Len(axes) |-> as[axes[i]].len]))
               ELSE Nil]

\* ---- inputs of the Axis and Variable models ----
Sizes == 1..MaxSize
Vectors == {Filled(<<n>>, "float64", 0) : n \in Sizes}
Matrices == {Filled(<<n, m>>, "float64", 0) : n \in Sizes, m \in Sizes}
Squares == {Filled(<<n, n>>, "float64", 0) : n \in Sizes}
Linspaces == {Tuple(<<1, n, n>>) : n \in Sizes}
Coords == Linspaces \cup {List(<<5, 6>>), Filled(<<1, 1>>, "float64", 0), NoneArg, Scalar(1)}

AttsC == [k \in {"name", "units"} |-> IF k = "name" THEN "c" ELSE "K"]

\* the record of the call obj.op(arg)
VCall(op, obj, arg, out) ==
  [op |-> op, obj |-> obj, arg |-> arg, out |-> out, tick |-> 1 - vres.tick]

\* ---- the Axis model: one Axis and the calls of its methods ----
\* x = Axis('x', length=lx) or x = Axis('x', coord=(1,n,n))
AxisInit ==
  /\ sr = None
  /\ grid = None
  /\ \E lx \in {0} \cup Sizes, cx \in {NoneArg} \cup Linspaces :
       axs = [i \in {"X"} |-> Axis("X", "x", "m", lx, cx)]
  /\ vars_ = None
  /\ vres = [op |-> "Axis", obj |-> "X", arg |-> NoneArg, out |-> "None", tick |-> 0]
  /\ rec = None /\ pc = "idle" /\ oldyear = 0 /\ oldmon = 0 /\ z = 0
  /\ data = <<>> /\ line = NoLine /\ nlines = 0
  /\ ds = None /\ dres = None

AxisLoad ==
  \E a \in DOMAIN axs, d \in Vectors \cup Squares \cup {NoneArg} :
    LET r == loadAxis(axs[a], d)
    IN /\ axs' = [axs EXCEPT ![a] = r.obj]
       /\ vres' = VCall("load", a, d, r.out)
       /\ UNCHANGED <<vars_, parserVars, datasetVars, stationVars, gridVars>>

AxisUnload ==
  \E a \in DOMAIN axs :
    /\ axs' = [axs EXCEPT ![a] = unload(axs[a]).obj]
    /\ vres' = VCall("unload", a, NoneArg, "None")
    /\ UNCHANGED <<vars_, parserVars, datasetVars, stationVars, gridVars>>

UpdateCoord ==
  \E a \in DOMAIN axs, c \in Coords :
    LET r == updateCoord(axs[a], c)
    IN /\ axs' = [axs EXCEPT ![a] = r.obj]
       /\ vres' = VCall("updateCoord", a, c, r.out)
       /\ UNCHANGED <<vars_, parserVars, datasetVars, stationVars, gridVars>>

UpdateLength ==
  \E a \in DOMAIN axs, m \in {0} \cup Sizes :
    LET r == updateLength(axs[a], m)
    IN /\ axs' = [axs EXCEPT ![a] = r.obj]
       /\ vres' = VCall("updateLength", a, Scalar(m), r.out)
       /\ UNCHANGED <<vars_, parserVars, datasetVars, stationVars, gridVars>>

AxisNext ==
  \/ AxisLoad
  \/ AxisUnload
  \/ UpdateCoord
  \/ UpdateLength

SpecAxis == AxisInit /\ [][AxisNext]_vars

\* ---- the Variable model: one Variable on two axes, loaded and unloaded,
\* and coordinate vectors loaded into its axes ----
\* x = Axis('x', length=lx) or x = Axis('x', coord=(1,n,n)); y likewise;
\* c = Variable('c', units='K', axes=(x,y)) without data
VariableInit ==
  /\ sr = None
  /\ grid = None
  /\ \E lx \in {0} \cup Sizes, cx \in {NoneArg} \cup Linspaces,
        ly \in {0} \cup Sizes, cy \in {NoneArg} \cup Linspaces :
       axs = [i \in {"X", "Y"} |->
                IF i = "X" THEN Axis("X", "x", "m", lx, cx)
                ELSE Axis("Y", "y", "m", ly, cy)]
  /\ vars_ = [i \in {"C"} |-> Variable("C", "c", "K", <<"X", "Y">>, AttsC, axs)]
  /\ vres = [op |-> "Variable", obj |-> "C", arg |-> NoneArg, out |-> "None", tick |-> 0]
  /\ rec = None /\ pc = "idle" /\ oldyear = 0 /\ oldmon = 0 /\ z = 0
  /\ data = <<>> /\ line = NoLine /\ nlines = 0
  /\ ds = None /\ dres = None

Load ==
  \E v \in DOMAIN vars_, d \in Matrices \cup {Filled(<<1>>, "float64", 0), NoneArg} :
    LET h == loadVariable(Heap(axs, vars_, "None"), v, d)
    IN /\ axs' = h.axs
       /\ vars_' = h.vars
       /\ vres' = VCall("load", v, d, h.out)
       /\ UNCHANGED <<parserVars, datasetVars, stationVars, gridVars>>

Unload ==
  \E v \in DOMAIN vars_ :
    /\ vars_' = [vars_ EXCEPT ![v] = unload(vars_[v]).obj]
    /\ vres' = VCall("unload", v, NoneArg, "None")
    /\ UNCHANGED <<axs, parserVars, datasetVars, stationVars, gridVars>>

\* a coordinate vector, or an array of two dimensions, loaded into an axis of
\* the Variable
AxisReload ==
  \E a \in DOMAIN axs, d \in {Filled(<<1>>, "float64", 0), Filled(<<1, 1>>, "float64", 0)} :
    LET r == loadAxis(axs[a], d)
    IN /\ axs' = [axs EXCEPT ![a] = r.obj]
       /\ vres' = VCall("load", a, d, r.out)
       /\ UNCHANGED <<vars_, parserVars, datasetVars, stationVars, gridVars>>

VariableNext ==
  \/ Load
  \/ Unload
  \/ AxisReload

SpecVariable == VariableInit /\ [][VariableNext]_vars

\* ---- C6, C7: axis lengths ----
\* the dimensions of the array d whose axis of the Variable v holds data of another size
Clashes(v, d) ==
  {i \in 1..Len(vars_[v].axes) :
     /\ axs[vars_[v].axes[i]].data
     /\ Get(axs[vars_[v].axes[i]].shape).dims[1] # d.shape[i]}

\* the step is v.load(d) of a Variable v with an array d of as many dimensions as v has axes
LoadsArray ==
  /\ vres'.op = "load"
  /\ vres'.obj \in DOMAIN vars_
  /\ vres'.arg.kind = "ndarray"
  /\ Len(vres'.arg.shape) = Len(vars_[vres'.obj].axes)

\* C6 as stated: Variable.load(array) fails whenever the array's size along some
\* dimension differs from the non-zero length its axis has declared, with or without
\* a coordinate vector, and never changes a declared non-zero length.
C6_DeclaredLengthChecked ==
  [][ LoadsArray =>
        /\ (\E i \in 1..Len(vars_[vres'.obj].axes) :
              /\ axs[vars_[vres'.obj].axes[i]].len # 0
              /\ axs[vars_[vres'.obj].axes[i]].len # vres'.arg.shape[i])
             => Failed(vres'.out)
        /\ \A a \in DOMAIN axs : axs[a].len # 0 => axs'[a].len = axs[a].len ]_vars

\* C6 as the code has it: Variable.load(array) fails exactly when some axis holds a
\* loaded coordinate array whose first dimension differs from the array's size
\* along it; an axis that holds none is not checked but given the array's size as
\* its length, up to the first failing axis; axes that hold data are left alone.
C6_OnlyCoordinateChecked ==
  [][ LoadsArray =>
        /\ Failed(vres'.out) <=> Clashes(vres'.obj, vres'.arg) # {}
        /\ \A i \in 1..Len(vars_[vres'.obj].axes) :
             IF \E j \in 1..i : j \in Clashes(vres'.obj, vres'.arg)
             THEN axs'[vars_[vres'.obj].axes[i]] = axs[vars_[vres'.obj].axes[i]]
             ELSE IF axs[vars_[vres'.obj].axes[i]].data
             THEN axs'[vars_[vres'.obj].axes[i]] = axs[vars_[vres'.obj].axes[i]]
             ELSE axs'[vars_[vres'.obj].axes[i]].len = vres'.arg.shape[i] ]_vars

\* a load has succeeded and left an axis, declared with one length (still seen in
\* the shape the constructor took from it), with the array's different size
C6_LengthOverwritten ==
  /\ vres.op = "load"
  /\ vres.obj = "C"
  /\ vres.out = "None"
  /\ \E i \in 1..2 :
       /\ ~axs[vars_["C"].axes[i]].data
       /\ axs[vars_["C"].axes[i]].shape # Nil
       /\ Get(axs[vars_["C"].axes[i]].shape).dims[1] # vres.arg.shape[i]
       /\ axs[vars_["C"].axes[i]].len = vres.arg.shape[i]

\* C7 as stated: an Axis with a coordinate vector of length n attached has length n,
\* and updateLength(m) with m # n fails and leaves the length n, after any calls of
\* load, updateCoord and updateLength.
C7_CoordinateFixesLength ==
  /\ [](\A a \in DOMAIN axs :
          axs[a].coord # Nil => axs[a].len = Get(axs[a].coord).shape[1])
  /\ [][ \A a \in DOMAIN axs :
           (/\ vres'.op = "updateLength"
            /\ vres'.obj = a
            /\ axs[a].coord # Nil
            /\ vres'.arg.cells[1] # Get(axs[a].coord).shape[1])
             => /\ Failed(vres'.out)
                /\ axs'[a].len = Get(axs[a].coord).shape[1] ]_vars

\* ---- C17: load and unload ----
\* C17: a Variable V loaded from an array D has V.shape == D.shape and
\* len(V) == D.ndim; V.unload() clears the data flag and detaches the array
\* while V.shape and the lengths of the axes of V stay as they are.
C17_LoadSetsShapeUnloadKeepsIt ==
  /\ [][ (vres'.op = "load" /\ vres'.obj \in DOMAIN vars_ /\ vres'.out = "None")
           => /\ vars_'[vres'.obj].data
              /\ vars_'[vres'.obj].data_array = Some(vres'.arg)
              /\ vars_'[vres'.obj].shape = Some(TupleShape(vres'.arg.shape))
              /\ len(vars_'[vres'.obj]) = Len(vres'.arg.shape) ]_vars
  /\ [][ (vres'.op = "unload" /\ vres'.obj \in DOMAIN vars_)
           => /\ ~vars_'[vres'.obj].data
              /\ vars_'[vres'.obj].data_array = Nil
              /\ vars_'[vres'.obj].shape = vars_[vres'.obj].shape
              /\ \A a \in DOMAIN axs : axs'[a].len = axs[a].len ]_vars

\* the Variable was loaded and then unloaded: it holds no array and still has
\* the shape of the array
C17_UnloadedWithShape ==
  /\ vres.op = "unload"
  /\ vres.obj = "C"
  /\ ~vars_["C"].data
  /\ vars_["C"].data_array = Nil
  /\ vars_["C"].shape = Some(TupleShape(<<MaxSize, 1>>))
  /\ axs["X"].len = MaxSize

(***************************************************************************)
(*                  Part 4: arithmetic on Variables                        *)
(***************************************************************************)

\* ---- bound of the arithmetic model ----
MaxVal == 3            \* the cells of the data arrays stay within 0 .. MaxVal

\* a Variable handed to an operator
Ref(v) == Value("Variable", <<>>, "", <<v>>)

\* the outcome of an operator: the objects, what was returned or raised, and
\* the Variable a binary operator has made
Result(as, vs, out, ret) == [axs |-> as, vars |-> vs, out |-> out, ret |-> ret]

\* base.py 426, 432, 438, 444 and 450, 458, 466, 474: the arithmetic on two cells;
\* the quotient is the exact one where the division leaves no remainder
ApplyOp(op, x, y) ==
  CASE op = "+" -> x + y
    [] op = "-" -> x - y
    [] op = "*" -> x * y
    [] op = "/" -> x \div y

\* the cell of the operand that meets cell i: a number meets every cell
Operand(arg, i) == IF arg.kind = "ndarray" THEN arg.cells[i] ELSE arg.cells[1]

\* base.py 25-28, with the assertion on the dtype left out
argOKAnyDtype(o, arg) ==
  IF arg.kind = "ndarray" THEN o.shape = Some(TupleShape(arg.shape))
  ELSE arg.kind = "number"

\* base.py 25-28: the assertions on the operand
argOK(o, arg) ==
  IF arg.kind = "ndarray"
  THEN o.shape = Some(TupleShape(arg.shape)) /\ o.dtype = arg.dtype
  ELSE arg.kind = "number"

\* base.py 426, 432, 438, 444: self.data_array op= a; return self
inPlace(op, o, arg) ==
  [o EXCEPT !.data_array =
     Some([Get(o.data_array) EXCEPT
             !.cells = [i \in 1..Len(Get(o.data_array).cells) |->
                          ApplyOp(op, Get(o.data_array).cells[i], Operand(arg, i))]])]

\* base.py 30-32: the operation on the Variable v, once it holds data; the
\* Variable itself is returned
applyUnary(op, h, v, arg) ==
  IF Failed(h.out) THEN Result(h.axs, h.vars, h.out, Nil)
  ELSE Result(h.axs, [h.vars EXCEPT ![v] = inPlace(op, h.vars[v], arg)], v, Nil)

\* base.py 23-32: UnaryCheck.__call__; load() of a Variable is called without data
UnaryCheck(op, h, v, arg) ==
  IF ~argOK(h.vars[v], arg) THEN Result(h.axs, h.vars, "AssertionError", Nil)
  ELSE IF ~h.vars[v].data THEN applyUnary(op, loadVariable(h, v, NoneArg), v, arg)
  ELSE applyUnary(op, h, v, arg)

\* base.py 57-58: (lax.coord == rax.coord).all() for each pair of axes; None == None
\* is True, which has no method all()
sameCoords(as, laxes, raxes) ==
  LET f[i \in 0..Len(laxes)] ==
        IF i = 0 THEN "None"
        ELSE IF Failed(f[i - 1]) THEN f[i - 1]
        ELSE CASE as[laxes[i]].coord = Nil /\ as[raxes[i]].coord = Nil -> "AttributeError"
               [] /\ as[laxes[i]].coord # Nil /\ as[raxes[i]].coord # Nil
                  /\ Get(as[laxes[i]].coord).shape = Get(as[raxes[i]].coord).shape ->
                    IF Get(as[laxes[i]].coord).cells = Get(as[raxes[i]].coord).cells
                    THEN "None" ELSE "AssertionError"
  IN f[Len(laxes)]

\* base.py 450-453, 458-461, 466-469, 474-477: data, name and units of the result
binOpData(op, l, r) ==
  Value("ndarray", Get(l.data_array).shape, Get(l.data_array).dtype,
        [i \in 1..Len(Get(l.data_array).cells) |->
           ApplyOp(op, Get(l.data_array).cells[i], Get(r.data_array).cells[i])])

binOpName(op, l, r) ==
  CASE op = "+" -> l.name \o " + " \o r.name
    [] op = "-" -> l.name \o " - " \o r.name
    [] op = "*" -> l.name \o " x " \o r.name
    [] op = "/" -> l.name \o " / " \o r.name

binOpUnits(op, l, r) ==
  CASE op \in {"+", "-"} -> l.units
    [] op = "*" -> l.units \o " " \o r.units
    [] op = "/" -> l.units \o " / (" \o r.units \o ")"

\* base.py 62: tmp = orig.atts.copy(); tmp.update(other.atts)
updated(latts, ratts) ==
  [k \in DOMAIN latts \cup DOMAIN ratts |-> IF k \in DOMAIN ratts THEN ratts[k] ELSE latts[k]]

\* base.py 63-64: the keys whose value equals orig.atts[key], then name and units
commonAtts(latts, tmp, name, units) ==
  [k \in {j \in DOMAIN tmp : tmp[j] = latts[j]} \cup {"name", "units"} |->
     IF k = "name" THEN name ELSE IF k = "units" THEN units ELSE tmp[k]]

\* base.py 137-186, 265-287: Variable(name, units, axes, atts, data)
newVariable(id, name, units, axes, atts, as, d) ==
  IF d.kind = "None" THEN Variable(id, name, units, axes, atts, as)
  ELSE attach(Variable(id, name, units, axes, atts, as), d).obj

\* base.py 60-68: the new Variable on the axes of orig; its constructor updates
\* the lengths of these axes (base.py 158 and again 287)
createVar(op, h, l, r) ==
  IF \E k \in DOMAIN r.atts : k \notin DOMAIN l.atts
  THEN Result(h.axs, h.vars, "KeyError", Nil)
  ELSE IF Failed(updateLengths(h.axs, l.axes, Get(l.data_array).shape).out)
  THEN Result(updateLengths(h.axs, l.axes, Get(l.data_array).shape).axs, h.vars,
              updateLengths(h.axs, l.axes, Get(l.data_array).shape).out, Nil)
  ELSE Result(updateLengths(h.axs, l.axes, Get(l.data_array).shape).axs, h.vars, "new",
              Some(newVariable("new", binOpName(op, l, r), binOpUnits(op, l, r), l.axes,
                               commonAtts(l.atts, updated(l.atts, r.atts),
                                          binOpName(op, l, r), binOpUnits(op, l, r)),
                               h.axs, binOpData(op, l, r))))

\* base.py 57-58, then 60-68
checkCoords(op, h, v, w) ==
  IF Failed(sameCoords(h.axs, h.vars[v].axes, h.vars[w].axes))
  THEN Result(h.axs, h.vars, sameCoords(h.axs, h.vars[v].axes, h.vars[w].axes), Nil)
  ELSE createVar(op, h, h.vars[v], h.vars[w])

\* base.py 56: if not other.data: other.load()
loadOther(op, h, v, w) ==
  IF Failed(h.out) THEN Result(h.axs, h.vars, h.out, Nil)
  ELSE IF ~h.vars[w].data
  THEN IF Failed(loadVariable(h, w, NoneArg).out)
       THEN Result(h.axs, loadVariable(h, w, NoneArg).vars, loadVariable(h, w, NoneArg).out, Nil)
       ELSE checkCoords(op, loadVariable(h, w, NoneArg), v, w)
  ELSE checkCoords(op, h, v, w)

\* base.py 51-69: BinaryCheckAndCreateVar_Class.__call__
BinaryCheck(op, h, v, other) ==
  IF other.kind # "Variable" THEN Result(h.axs, h.vars, "AssertionError", Nil)
  ELSE IF op \in {"+", "-"} /\ h.vars[v].units # h.vars[other.cells[1]].units
  THEN Result(h.axs, h.vars, "AssertionError", Nil)
  ELSE IF h.vars[v].shape # h.vars[other.cells[1]].shape
  THEN Result(h.axs, h.vars, "AssertionError", Nil)
  ELSE IF ~h.vars[v].data THEN loadOther(op, loadVariable(h, v, NoneArg), v, other.cells[1])
  ELSE loadOther(op, h, v, other.cells[1])

\* ---- inputs of the arithmetic model ----
AttsA == [k \in {"name", "units", "long_name", "source"} |->
            CASE k = "name" -> "a" [] k = "units" -> "K"
              [] k = "long_name" -> "temperature" [] k = "source" -> "obs"]
AttsB == [k \in {"name", "units", "long_name"} |->
            CASE k = "name" -> "b" [] k = "units" -> "K" [] k = "long_name" -> "dew point"]
AttsE == [k \in {"name", "units"} |-> IF k = "name" THEN "e" ELSE "m"]

Operands ==
  {Scalar(1), Scalar(2), String("2"), List(<<1, 1>>), Ref("B")}
    \cup {Filled(<<n>>, "float64", 1) : n \in Sizes}
    \cup {Filled(<<n>>, "int64", 1) : n \in Sizes}
Others == {Ref(w) : w \in {"A", "B", "E"}} \cup {Scalar(2)}

\* the cells of the outcome stay within the bound
InRange(o) ==
  \A i \in 1..Len(Get(o.data_array).cells) : Get(o.data_array).cells[i] \in 0..MaxVal

\* the divisions that leave no remainder: the only ones taken
Exact(cells, arg) ==
  \A i \in 1..Len(cells) : Operand(arg, i) # 0 /\ cells[i] % Operand(arg, i) = 0

\* x, y = two axes, both with a coordinate vector or both with a length only;
\* a, b = Variables on x, with or without data; e = Variable on y with data
ArithInit ==
  /\ sr = None
  /\ grid = None
  /\ \E nx \in Sizes, coords \in BOOLEAN :
       axs = [i \in {"X", "Y"} |->
                IF i = "X"
                THEN Axis("X", "x", "m", nx, IF coords THEN Tuple(<<1, nx, nx>>) ELSE NoneArg)
                ELSE Axis("Y", "y", "m", MaxSize,
                          IF coords THEN Tuple(<<2, MaxSize + 1, MaxSize>>) ELSE NoneArg)]
  /\ \E la \in BOOLEAN, lb \in BOOLEAN :
       vars_ = [i \in {"A", "B", "E"} |->
                  CASE i = "A" ->
                         newVariable("A", "a", "K", <<"X">>, AttsA, axs,
                                     IF la THEN Filled(<<axs["X"].len>>, "float64", 2) ELSE NoneArg)
                    [] i = "B" ->
                         newVariable("B", "b", "K", <<"X">>, AttsB, axs,
                                     IF lb THEN Filled(<<axs["X"].len>>, "float64", 1) ELSE NoneArg)
                    [] i = "E" ->
                         newVariable("E", "e", "m", <<"Y">>, AttsE, axs,
                                     Filled(<<axs["Y"].len>>, "float64", 2))]
  /\ vres = [op |-> "Variable", obj |-> "A", arg |-> NoneArg, out |-> "None",
             ret |-> Nil, tick |-> 0]
  /\ rec = None /\ pc = "idle" /\ oldyear = 0 /\ oldmon = 0 /\ z = 0
  /\ data = <<>> /\ line = NoLine /\ nlines = 0
  /\ ds = None /\ dres = None

\* the record of the call of an operator
OpCall(op, obj, arg, r) ==
  [op |-> op, obj |-> obj, arg |-> arg, out |-> r.out, ret |-> r.ret, tick |-> 1 - vres.tick]

\* a += arg
IAdd ==
  \E v \in {"A"}, arg \in Operands :
    LET r == UnaryCheck("+", Heap(axs, vars_, "None"), v, arg)
    IN /\ ~Failed(r.out) => InRange(r.vars[v])
       /\ axs' = r.axs /\ vars_' = r.vars
       /\ vres' = OpCall("+=", v, arg, r)
       /\ UNCHANGED <<parserVars, datasetVars, stationVars, gridVars>>

ISub ==
  \E v \in {"A"}, arg \in Operands :
    LET r == UnaryCheck("-", Heap(axs, vars_, "None"), v, arg)
    IN /\ ~Failed(r.out) => InRange(r.vars[v])
       /\ axs' = r.axs /\ vars_' = r.vars
       /\ vres' = OpCall("-=", v, arg, r)
       /\ UNCHANGED <<parserVars, datasetVars, stationVars, gridVars>>

IMul ==
  \E v \in {"A"}, arg \in Operands :
    LET r == UnaryCheck("*", Heap(axs, vars_, "None"), v, arg)
    IN /\ ~Failed(r.out) => InRange(r.vars[v])
       /\ axs' = r.axs /\ vars_' = r.vars
       /\ vres' = OpCall("*=", v, arg, r)
       /\ UNCHANGED <<parserVars, datasetVars, stationVars, gridVars>>

IDiv ==
  \E v \in {"A"}, arg \in Operands :
    LET r == UnaryCheck("/", Heap(axs, vars_, "None"), v, arg)
    IN /\ (vars_[v].data /\ argOK(vars_[v], arg)) => Exact(Get(vars_[v].data_array).cells, arg)
       /\ axs' = r.axs /\ vars_' = r.vars
       /\ vres' = OpCall("/=", v, arg, r)
       /\ UNCHANGED <<parserVars, datasetVars, stationVars, gridVars>>

\* a + other
Add ==
  \E v \in DOMAIN vars_, other \in Others :
    LET r == BinaryCheck("+", Heap(axs, vars_, "None"), v, other)
    IN /\ axs' = r.axs /\ vars_' = r.vars
       /\ vres' = OpCall("+", v, other, r)
       /\ UNCHANGED <<parserVars, datasetVars, stationVars, gridVars>>

Sub ==
  \E v \in DOMAIN vars_, other \in Others :
    LET r == BinaryCheck("-", Heap(axs, vars_, "None"), v, other)
    IN /\ axs' = r.axs /\ vars_' = r.vars
       /\ vres' = OpCall("-", v, other, r)
       /\ UNCHANGED <<parserVars, datasetVars, stationVars, gridVars>>

Mul ==
  \E v \in DOMAIN vars_, other \in Others :
    LET r == BinaryCheck("*", Heap(axs, vars_, "None"), v, other)
    IN /\ axs' = r.axs /\ vars_' = r.vars
       /\ vres' = OpCall("*", v, other, r)
       /\ UNCHANGED <<parserVars, datasetVars, stationVars, gridVars>>

Div ==
  \E v \in DOMAIN vars_, other \in Others :
    LET r == BinaryCheck("/", Heap(axs, vars_, "None"), v, other)
    IN /\ (/\ other.kind = "Variable"
            /\ vars_[v].data
            /\ vars_[other.cells[1]].data
            /\ vars_[v].shape = vars_[other.cells[1]].shape)
             => Exact(Get(vars_[v].data_array).cells, Get(vars_[other.cells[1]].data_array))
       /\ axs' = r.axs /\ vars_' = r.vars
       /\ vres' = OpCall("/", v, other, r)
       /\ UNCHANGED <<parserVars, datasetVars, stationVars, gridVars>>

ArithNext ==
  \/ IAdd
  \/ ISub
  \/ IMul
  \/ IDiv
  \/ Add
  \/ Sub
  \/ Mul
  \/ Div

SpecArith == ArithInit /\ [][ArithNext]_vars

\* ---- C8, C9: the binary operators ----
BinaryOps == {"+", "-", "*", "/"}

\* C8 as stated, for operands that hold data: A + B fails when the shapes differ;
\* with identical shapes, units and axes it returns a new Variable named
\* '<A.name> + <B.name>' with the units of A.
C8_AddOfEqualShapes ==
  [][ (/\ vres'.op = "+"
       /\ vres'.arg.kind = "Variable"
       /\ vars_[vres'.obj].data
       /\ vars_[vres'.arg.cells[1]].data)
        => /\ vars_[vres'.obj].shape # vars_[vres'.arg.cells[1]].shape => Failed(vres'.out)
           /\ (/\ vars_[vres'.obj].shape = vars_[vres'.arg.cells[1]].shape
               /\ vars_[vres'.obj].units = vars_[vres'.arg.cells[1]].units
               /\ vars_[vres'.obj].axes = vars_[vres'.arg.cells[1]].axes)
                => /\ ~Failed(vres'.out)
                   /\ vres'.ret # Nil
                   /\ Get(vres'.ret).name
                        = vars_[vres'.obj].name \o " + " \o vars_[vres'.arg.cells[1]].name
                   /\ Get(vres'.ret).units = vars_[vres'.obj].units ]_vars

\* C9 as stated: the attributes of the Variable a binary operator returns are the
\* pairs present in both operands with equal values, and name and units as the
\* operator sets them; a key of one operand only, or with two values, is absent.
C9_AttsAreAgreeingIntersection ==
  [][ (vres'.op \in BinaryOps /\ vres'.ret # Nil)
        => /\ \A k \in (DOMAIN vars_[vres'.obj].atts
                          \cup DOMAIN vars_[vres'.arg.cells[1]].atts
                          \cup DOMAIN Get(vres'.ret).atts) \ {"name", "units"} :
                k \in DOMAIN Get(vres'.ret).atts
                  <=> /\ k \in DOMAIN vars_[vres'.obj].atts
                      /\ k \in DOMAIN vars_[vres'.arg.cells[1]].atts
                      /\ vars_[vres'.obj].atts[k] = vars_[vres'.arg.cells[1]].atts[k]
                      /\ Get(vres'.ret).atts[k] = vars_[vres'.obj].atts[k]
           /\ Get(vres'.ret).atts["name"] = Get(vres'.ret).name
           /\ Get(vres'.ret).atts["units"] = Get(vres'.ret).units ]_vars

\* ---- C10: the in-place operators ----
InPlaceOps == {"+=", "-=", "*=", "/="}

OpOf(iop) ==
  CASE iop = "+=" -> "+" [] iop = "-=" -> "-" [] iop = "*=" -> "*" [] iop = "/=" -> "/"

\* the operand is a number, or an array of the shape and dtype of the Variable
Accepts(o, arg) ==
  \/ arg.kind = "number"
  \/ /\ arg.kind = "ndarray"
     /\ o.shape # Nil
     /\ Get(o.shape).dims = arg.shape
     /\ o.dtype = arg.dtype

\* the Variable v is the object returned, holds data, and its cells are those
\* of before with the operand applied; nothing else has changed
MutatedInPlace(v) ==
  /\ vres'.out = v
  /\ vars_'[v].data
  /\ Get(vars_'[v].data_array).cells
       = [i \in 1..Len(Get(vars_'[v].data_array).cells) |->
            ApplyOp(OpOf(vres'.op), Get(vars_[v].data_array).cells[i], Operand(vres'.arg, i))]
  /\ \A w \in DOMAIN vars_ \ {v} : vars_'[w] = vars_[w]
  /\ axs' = axs

MaxRows == 4           \* roster rows read before the model stops reading further ones

\* ---- the arguments of the constructor ----
\* variables: the names of the dict in the order variables.iteritems() yields them
VariableOrders == {<<"Tmax">>, <<"Tmax", "Tmin">>, <<"Tmin", "Tmax">>}

\* constraints: None (Nil) or a dict from field names to allowed values
ProvPE == [k \in {"prov"} |-> {"PE"}]
ProvNone == [k \in {"prov"} |-> {"XX"}]
ProvAndJoined == [k \in {"prov", "joined"} |-> IF k = "prov" THEN {"PE", "BC"} ELSE {"True"}]
UnknownField == [k \in {"region"} |-> {"PE"}]
ConstraintDicts == {Some(ProvPE), Some(ProvNone), Some(ProvAndJoined), Some(UnknownField), Nil}

\* ---- the roster file ----
\* a row after line.split(): the first column, prov, joined and the words of
\* the station name; the other columns hold well-formed numbers
RowNumbers == {<<"1">>, <<"2">>, <<"3">>, <<"4">>, <<"0", "5">>, <<"x">>}
StationFields ==
  { [prov |-> "PE", joined |-> "Y", words |-> <<"ALBERTON">>],
    [prov |-> "PE", joined |-> "n", words |-> <<"O'LEARY">>],
    [prov |-> "BC", joined |-> "y", words |-> <<"AGASSIZ", "CDA">>],
    [prov |-> "BC", joined |-> "N", words |-> <<>>] }
Rows ==
  { [kind |-> "row", no |-> n, prov |-> f.prov, joined |-> f.joined, words |-> f.words] :
      n \in RowNumbers, f \in StationFields }
NoRow == [kind |-> "none", no |-> <<>>, prov |-> "", joined |-> "", words |-> <<>>]
BlankRow == [NoRow EXCEPT !.kind = "blank"]
EndOfRows == [NoRow EXCEPT !.kind = "eof"]

\* EC.py 240: lambda l: l.upper() == 'Y'
isJoined(l) == IF l \in {"Y", "y"} THEN "True" ELSE "False"

\* ' '.join(words)
Join(words) ==
  LET f[i \in 0..Len(words)] ==
        IF i = 0 THEN "" ELSE IF i = 1 THEN words[1] ELSE f[i - 1] \o " " \o words[i]
  IN f[Len(words)]

\* EC.py 314-328: the station arguments of a row (stdef)
stdef(row) ==
  [id |-> "id", prov |-> row.prov, joined |-> isJoined(row.joined), name |-> Join(row.words)]

\* EC.py 318-320: the first column against the row counter; the outcome is the
\* exception raised or None
firstColumnUnchecked(zz, no) ==
  IF PyInt(no).err # None THEN PyInt(no).err ELSE None

firstColumn(zz, no) ==
  IF PyInt(no).err # None THEN PyInt(no).err
  ELSE IF zz * 100 # PyInt(no).val THEN "ParseError"
  ELSE None

\* EC.py 331-335: None for an admitted station, or the exception, or "skip"
admitAny(c, st) ==
  IF c = Nil THEN None
  ELSE IF \E key \in DOMAIN Get(c) : key \notin DOMAIN st THEN "KeyError"
  ELSE None

admit(c, st) ==
  IF c = Nil THEN None
  ELSE IF \E key \in DOMAIN Get(c) : key \notin DOMAIN st THEN "KeyError"
  ELSE IF \E key \in DOMAIN Get(c) : st[key] \notin Get(c)[key] THEN "skip"
  ELSE None

\* EC.py 337-346: a record is made, checked and appended for each variable in
\* turn; bad is the number of the variable whose file header fails (0: none)
appendRecords(s, st, bad) ==
  [s EXCEPT
     !.ns = s.ns + 1,
     !.stationlists = [v \in DOMAIN s.stationlists |->
        IF \E i \in 1..Len(s.variables) :
             s.variables[i] = v /\ (bad = 0 \/ i < bad)
        THEN Append(s.stationlists[v], st) ELSE s.stationlists[v]],
     !.varname = Some(s.variables[IF bad = 0 THEN Len(s.variables) ELSE bad]),
     !.pc = IF bad = 0 THEN "rows" ELSE "ParseError"]

\* EC.py 313-346: one line of the roster; s already counts it (z += 1)
readRow(s, row, bad) ==
  IF row.kind = "blank" THEN [s EXCEPT !.pc = "IndexError"]
  ELSE IF firstColumn(s.z, row.no) # None THEN [s EXCEPT !.pc = firstColumn(s.z, row.no)]
  ELSE IF admit(s.constraints, stdef(row)) = "skip" THEN s
  ELSE IF admit(s.constraints, stdef(row)) # None
  THEN [s EXCEPT !.pc = admit(s.constraints, stdef(row))]
  ELSE appendRecords(s, stdef(row), bad)

\* EC.py 347: the assertion reads varname, the variable of the loop of line 340
finalAssert(s) ==
  IF s.varname = Nil THEN "NameError"
  ELSE IF Len(s.stationlists[Get(s.varname)]) # s.ns THEN "AssertionError"
  ELSE "constructed"

\* ---- prepareDataset (EC.py 349-366) ----
StationAxis == "STN"     \* the Axis made at EC.py 357
NameVariable == "NAMES"  \* the Variable made at EC.py 361

\* EC.py 41, 52: varatts['name'], varatts['station']
StationAtts == [k \in {"name", "units", "atts"} |->
                  IF k = "name" THEN "station" ELSE IF k = "units" THEN "#" ELSE "Station Number"]
NameAtts == [k \in {"name", "units", "atts"} |->
               IF k = "name" THEN "name" ELSE IF k = "units" THEN "" ELSE "Station Name"]

\* np.arange(1, n+1, dtype='int16')
Arange(n) == Vector([i \in 1..n |-> i], "int16")

\* max([len(stn.name) for stn in stationlist]), for a list that is not empty
MaxNameLen(stationlist) ==
  CHOOSE m \in {Len(stationlist[i].name) : i \in 1..Len(stationlist)} :
    \A i \in 1..Len(stationlist) : Len(stationlist[i].name) <= m

\* str.ljust(width)
Ljust(str, width) ==
  LET f[i \in 0..width] == IF i <= Len(str) THEN str ELSE f[i - 1] \o " "
  IN f[width]

\* EC.py 360: the array of the padded names
NameArray(stationlist, namelen) ==
  Vector([i \in 1..Len(stationlist) |-> Ljust(stationlist[i].name, namelen)], "S")

\* base.py 136-186: Variable(axes=axes, data=d, atts=atts); name and units keep
\* their defaults
initVariable(id, axes, atts, d, as) ==
  loadVariable(
    Heap(updateLengths(as, axes, d.shape).axs,
         [v \in {id} |-> [Object(id, "N/A", "N/A", axes, atts) EXCEPT
                            !.data = TRUE, !.shape = Some(TupleShape(d.shape)),
                            !.dtype = d.dtype]],
         updateLengths(as, axes, d.shape).out),
    id, d)

\* EC.py 349-366
prepareDataset(s) ==
  IF Len(s.variables) = 0
  THEN [ds |-> EmptyDataset, heap |-> Heap(<<>>, <<>>, "IndexError")]
  ELSE IF \E v \in DOMAIN s.stationlists :
            Len(s.stationlists[v]) # Len(s.stationlists[s.variables[1]])
  THEN [ds |-> EmptyDataset, heap |-> Heap(<<>>, <<>>, "AssertionError")]
  ELSE IF Len(s.stationlists[s.variables[1]]) = 0
  THEN [ds |-> EmptyDataset,
        heap |-> Heap([a \in {StationAxis} |->
                         Axis(StationAxis, "N/A", "N/A", 0, Arange(0))], <<>>, "ValueError")]
  ELSE [ds |-> addVariable(EmptyDataset, NameVariable).ds,
        heap |-> Heap(
           initVariable(NameVariable, <<StationAxis>>, NameAtts,
                        NameArray(s.stationlists[s.variables[1]],
                                  MaxNameLen(s.stationlists[s.variables[1]])),
                        [a \in {StationAxis} |->
                           Axis(StationAxis, "N/A", "N/A", 0,
                                Arange(Len(s.stationlists[s.variables[1]])))]).axs,
           initVariable(NameVariable, <<StationAxis>>, NameAtts,
                        NameArray(s.stationlists[s.variables[1]],
                                  MaxNameLen(s.stationlists[s.variables[1]])),
                        [a \in {StationAxis} |->
                           Axis(StationAxis, "N/A", "N/A", 0,
                                Arange(Len(s.stationlists[s.variables[1]])))]).vars,
           addVariable(EmptyDataset, NameVariable).out)]

\* ---- StationRecords as a state machine ----
\* EC.py 265-296: the arguments are checked and stored, the file is opened
StationsInit ==
  /\ \E vs \in VariableOrders, c \in ConstraintDicts :
       sr = [variables |-> vs, constraints |-> c, pc |-> "header", z |-> 0, ns |-> 0,
             stationlists |-> <<>>, varname |-> Nil, row |-> NoRow]
  /\ ds = EmptyDataset /\ dres = None
  /\ axs = <<>> /\ vars_ = <<>> /\ vres = None
  /\ rec = None /\ pc = "idle" /\ oldyear = 0 /\ oldmon = 0 /\ z = 0
  /\ data = <<>> /\ line = NoLine /\ nlines = 0
  /\ grid = None

\* EC.py 298-309: the four header lines; title says whether the first line holds
\* the datatype, columns whether the third line matches header_format
ReadRosterHeader ==
  /\ sr.pc = "header"
  /\ \E title \in BOOLEAN, columns \in BOOLEAN :
       sr' = IF title /\ columns
             THEN [sr EXCEPT !.pc = "rows",
                             !.stationlists =
                                [v \in {sr.variables[i] : i \in 1..Len(sr.variables)} |-> <<>>]]
             ELSE [sr EXCEPT !.pc = "ParseError"]
  /\ UNCHANGED <<parserVars, datasetVars, variableVars, gridVars>>

\* EC.py 311-346: one more line of the file
ReadRow ==
  /\ sr.pc = "rows"
  /\ sr.z < MaxRows
  /\ \E row \in Rows \cup {BlankRow}, bad \in 0..Len(sr.variables) :
       sr' = readRow([sr EXCEPT !.z = sr.z + 1, !.row = row], row, bad)
  /\ UNCHANGED <<parserVars, datasetVars, variableVars, gridVars>>

\* EC.py 311, 347: the file has no further line
EndOfRoster ==
  /\ sr.pc = "rows"
  /\ sr' = [sr EXCEPT !.pc = finalAssert(sr), !.row = EndOfRows]
  /\ UNCHANGED <<parserVars, datasetVars, variableVars, gridVars>>

\* EC.py 349-366
PrepareDataset ==
  /\ sr.pc = "constructed"
  /\ LET r == prepareDataset(sr)
     IN /\ sr' = [sr EXCEPT !.pc = IF r.heap.out \in {"None", "True"}
                                   THEN "prepared" ELSE r.heap.out]
        /\ ds' = r.ds
        /\ axs' = r.heap.axs
        /\ vars_' = r.heap.vars
  /\ UNCHANGED <<parserVars, dres, vres, gridVars>>

StationsNext ==
  \/ ReadRosterHeader
  \/ ReadRow
  \/ EndOfRoster
  \/ PrepareDataset

SpecStations == StationsInit /\ [][StationsNext]_vars

\* ---- claims about StationRecords ----

\* the step reads a roster row; its first column is an integer literal
RowRead == sr.pc = "rows" /\ sr'.row.kind = "row"
NumberedRow == RowRead /\ PyInt(sr'.row.no).err = None

\* C14: the construction raises ParseError whenever the first column of the
\* k-th data row of the roster (k counts every row from 1, admitted or not)
\* is a number other than k; nothing is added to the record lists by that row.
C14_SequentialIdChecked ==
  /\ [][ (NumberedRow /\ PyInt(sr'.row.no).val # (sr.z + 1) * 100)
           => /\ sr'.pc = "ParseError"
              /\ sr'.ns = sr.ns
              /\ sr'.stationlists = sr.stationlists ]_vars
  /\ [][ RowRead => sr'.z = sr.z + 1 ]_vars

\* the fourth row is numbered 3, after rows of which some were not admitted
C14_FourthRowNumberedThree ==
  /\ sr.pc = "ParseError"
  /\ sr.z = 4
  /\ sr.row.kind = "row"
  /\ sr.row.no = <<"3">>
  /\ sr.ns < 3

\* C15: for a well-formed roster and any constraints, also constraints that
\* admit no station, the construction completes with the record list of every
\* variable of the same length, the number of admitted stations.
C15_ConstructionCompletes ==
  [][ (sr.pc = "rows" /\ sr'.row.kind = "eof")
        => /\ sr'.pc = "constructed"
           /\ \A v \in DOMAIN sr'.stationlists : Len(sr'.stationlists[v]) = sr'.ns ]_vars

\* every constrained field of the row holds an allowed value
Allowed(c, row) ==
  c = Nil \/ \A key \in DOMAIN Get(c) : stdef(row)[key] \in Get(c)[key]

\* the row passes the checks that come before the constraints and the
\* constraints name station fields only
Constrained(c, row) ==
  /\ NumberedRow
  /\ PyInt(row.no).val = (sr.z + 1) * 100
  /\ c = Nil \/ DOMAIN Get(c) \subseteq DOMAIN stdef(row)

\* C16: a roster row is admitted exactly when the parsed value of every
\* constrained field lies in the allowed set of that field: an admitted row is
\* counted and, unless the header of one of its files fails, appended to the
\* list of every variable, any other row leaves the lists alone.
\* prepareDataset() yields a Dataset whose station axis holds the coordinates
\* 1..n, n the number of admitted stations.
C16_AdmitsAllowedRows ==
  /\ [][ Constrained(sr.constraints, sr'.row)
           => IF Allowed(sr.constraints, sr'.row)
              THEN /\ sr'.ns = sr.ns + 1
                   /\ sr'.pc \in {"rows", "ParseError"}
                   /\ sr'.pc = "rows" =>
                        \A v \in DOMAIN sr.stationlists :
                          sr'.stationlists[v] = Append(sr.stationlists[v], stdef(sr'.row))
              ELSE /\ sr'.ns = sr.ns
                   /\ sr'.pc = "rows"
                   /\ sr'.stationlists = sr.stationlists ]_vars
  /\ [][ sr.pc = "constructed" => sr'.pc = "prepared" ]_vars
  /\ [](sr.pc = "prepared" =>
          /\ Values(ds.axes) = {StationAxis}
          /\ axs[StationAxis].data
          /\ axs[StationAxis].coord = Some(Vector([i \in 1..sr.ns |-> i], "int16"))
          /\ axs[StationAxis].len = sr.ns
          /\ \A v \in DOMAIN sr.stationlists : Len(sr.stationlists[v]) = sr.ns)

\* three rows of which one is in 'PE', under the constraint prov in ('PE',)
C16_OneOfThreeAdmitted ==
  /\ sr.pc = "prepared"
  /\ sr.constraints = Some(ProvPE)
  /\ sr.z = 3
  /\ sr.ns = 1
  /\ axs[StationAxis].len = 1
  /\ Get(axs[StationAxis].coord).cells = <<1>>

(***************************************************************************)
(* Part 6: masks (base.py 337-421) and the collective operations of a      *)
(* Dataset (base.py 673-692)                                               *)
(***************************************************************************)
\* ---- masked arrays ----
\* ma.array(data, mask=mask): the cells of data and one boolean per cell
MaskedArray(d, m) ==
  [kind |-> "MaskedArray", shape |-> d.shape, dtype |-> d.dtype, cells |-> d.cells,
   mask |-> m]

IsMaskedArray(a) == a.kind = "MaskedArray"

\* a boolean array
BoolArray(shape, cells) == Value("ndarray", shape, "bool", cells)

\* base.py 280, 405: ma.default_fill_value(data) of a float array stands for
\* itself as the cell "fill"; a cell of an array holds <<number>> or <<"fill">>
FillCell == <<"fill">>
Cell(x) == <<x>>
Zeros(shape) == Value("ndarray", shape, "float64", [i \in 1..Size(shape) |-> Cell(0)])

\* np.broadcast_arrays(mask, data)[0] for a mask that has the trailing
\* dimensions of the shape: the cells of the mask repeated along the leading ones
Broadcast(m, shape) ==
  [i \in 1..Size(shape) |-> m.cells[((i - 1) % Size(m.shape)) + 1]]

\* MaskedArray.filled(fill_value) with the default fill value
filled(a) ==
  Value("ndarray", a.shape, a.dtype,
        [i \in 1..Len(a.cells) |-> IF a.mask[i] THEN FillCell ELSE a.cells[i]])

\* ma.mask_or(m1, m2)
mask_or(m1, m2) == [i \in 1..Len(m1) |-> m1[i] \/ m2[i]]

\* base.py 296-311 for getArray(unmask=...) without an index: the outcome is the
\* exception raised or the kind of the array returned. A Variable without data
\* calls load() without an array (305); the masked flag set on an array that
\* carries no mask makes filled() fail (310)
getArray(o, unmask) ==
  IF ~o.data THEN "AssertionError"
  ELSE IF unmask /\ o.masked /\ ~IsMaskedArray(Get(o.data_array)) THEN "AttributeError"
  ELSE "ndarray"

\* base.py 393-399: the data and the mask of the new array; bm is the
\* broadcast mask
newData(o, merge) ==
  IF merge /\ o.masked THEN Get(o.data_array)
  ELSE IF o.masked THEN filled(Get(o.data_array))
  ELSE Get(o.data_array)

replaceMask(o, bm, merge) == bm

mergeMask(o, bm, merge) ==
  IF merge /\ o.masked THEN mask_or(Get(o.data_array).mask, bm) ELSE bm

\* seq[k:] of Python
SliceFrom(seq, k) ==
  IF k < 0
  THEN SubSeq(seq, (IF Len(seq) + k < 0 THEN 0 ELSE Len(seq) + k) + 1, Len(seq))
  ELSE SubSeq(seq, (IF k > Len(seq) THEN Len(seq) ELSE k) + 1, Len(seq))

\* base.py 337-407: Variable.mask(mask=m, merge=merge), m None or an array
maskData(o, m, merge) ==
  IF getArray(o, ~(merge /\ o.masked)) # "ndarray"
  THEN Throw(o, getArray(o, ~(merge /\ o.masked)))
  ELSE IF merge /\ o.masked /\ ~IsMaskedArray(Get(o.data_array))
  THEN Throw(o, "AttributeError")
  ELSE Done([o EXCEPT
               !.data_array =
                  Some(MaskedArray(newData(o, merge),
                                   mergeMask(o, Broadcast(m, Get(o.shape).dims), merge))),
               !.masked = TRUE,
               !.fillValue = Some("default")])

mask(o, m, merge) ==
  IF m.kind = "None" THEN Done(o)
  ELSE IF m.kind # "ndarray" THEN Throw(o, "AssertionError")
  ELSE IF o.shape = Nil THEN Throw(o, "TypeError")
  ELSE IF Len(Get(o.shape).dims) < Len(m.shape) THEN Throw(o, "AssertionError")
  ELSE IF \/ Get(o.shape).seq # "tuple"
          \/ SliceFrom(Get(o.shape).dims, ndim(o) - Len(m.shape)) # m.shape
  THEN Throw(o, "AssertionError")
  ELSE maskData(o, m, merge)

\* base.py 409-416: Variable.unmask()
unmask(o) ==
  IF ~o.masked THEN Done(o)
  ELSE IF o.data_array = Nil THEN Throw(o, "AttributeError")
  ELSE IF ~IsMaskedArray(Get(o.data_array)) THEN Throw(o, "AttributeError")
  ELSE Done([o EXCEPT !.data_array = Some(filled(Get(o.data_array))),
                      !.masked = FALSE, !.fillValue = Nil])

\* ---- the collective operations of a Dataset ----
\* the Variable objects of the Dataset in the order itervalues() yields them
Orders(d) ==
  {o \in [1..Cardinality(DOMAIN d.variables) -> Values(d.variables)] :
     \A i, j \in DOMAIN o : i # j => o[i] # o[j]}

\* base.py 673-676: var.load(data=d) for every Variable; the first exception
\* ends the loop
loadAll(h, order, d) ==
  LET f[i \in 0..Len(order)] ==
        IF i = 0 THEN h
        ELSE IF Failed(f[i - 1].out) THEN f[i - 1]
        ELSE loadVariable(f[i - 1], order[i], d)
  IN f[Len(order)]

\* base.py 678-681
unloadAll(h, order) ==
  Heap(h.axs, [v \in DOMAIN h.vars |->
                 IF \E i \in 1..Len(order) : order[i] = v
                 THEN unload(h.vars[v]).obj ELSE h.vars[v]], "None")

\* base.py 683-687: var.load(mask=m) for every Variable of at least the
\* dimensions of the mask: load is called without an array
maskAll(h, order, m) ==
  IF m.kind = "None"
  THEN IF Len(order) = 0 THEN h ELSE Heap(h.axs, h.vars, "AttributeError")
  ELSE LET f[i \in 0..Len(order)] ==
             IF i = 0 THEN h
             ELSE IF Failed(f[i - 1].out) THEN f[i - 1]
             ELSE IF ndim(f[i - 1].vars[order[i]]) >= Len(m.shape)
             THEN loadVariable(f[i - 1], order[i], NoneArg)
             ELSE f[i - 1]
       IN f[Len(order)]

\* base.py 689-692: var.load(fillValue=fillValue) for every Variable
unmaskAll(h, order) == loadAll(h, order, NoneArg)

\* ---- inputs ----
LenY == 2              \* bound: the length of the axis y
ShapeC == <<MaxSize, LenY>>
ShapeD == <<LenY>>
MaskFirst == BoolArray(ShapeC, [i \in 1..Size(ShapeC) |-> i = 1])
MaskLeft == BoolArray(ShapeD, [i \in 1..LenY |-> i = 1])
MaskRight == BoolArray(ShapeD, [i \in 1..LenY |-> i # 1])
MaskLong == BoolArray(<<LenY + 1>>, [i \in 1..(LenY + 1) |-> i = 1])
MaskArgs == {MaskFirst, MaskLeft, MaskRight, MaskLong, NoneArg, Scalar(1)}
LoadArgs == {Zeros(ShapeC), Zeros(ShapeD), NoneArg}

\* ---- the mask model: the Variable c on (x, y) ----
MaskInit ==
  /\ sr = None
  /\ grid = None
  /\ axs = [i \in {"X", "Y"} |->
              IF i = "X" THEN Axis("X", "x", "m", MaxSize, NoneArg)
              ELSE Axis("Y", "y", "m", LenY, NoneArg)]
  /\ \E lc \in BOOLEAN :
       vars_ = [i \in {"C"} |->
                  newVariable("C", "c", "K", <<"X", "Y">>, AttsC, axs,
                              IF lc THEN Zeros(ShapeC) ELSE NoneArg)]
  /\ vres = [op |-> "Variable", obj |-> "C", arg |-> NoneArg, merge |-> TRUE,
             out |-> "None", tick |-> 0]
  /\ ds = None /\ dres = None
  /\ rec = None /\ pc = "idle" /\ oldyear = 0 /\ oldmon = 0 /\ z = 0
  /\ data = <<>> /\ line = NoLine /\ nlines = 0

\* the record of the call obj.op(arg, merge=merge)
MCall(op, obj, arg, merge, out) ==
  [op |-> op, obj |-> obj, arg |-> arg, merge |-> merge, out |-> out,
   tick |-> 1 - vres.tick]

\* var.mask(m, merge=merge)
Mask ==
  \E v \in DOMAIN vars_, m \in MaskArgs, merge \in BOOLEAN :
    LET r == mask(vars_[v], m, merge)
    IN /\ vars_' = [vars_ EXCEPT ![v] = r.obj]
       /\ vres' = MCall("mask", v, m, merge, r.out)
       /\ UNCHANGED <<axs, ds, dres, parserVars, stationVars, gridVars>>

\* var.unmask()
Unmask ==
  \E v \in DOMAIN vars_ :
    LET r == unmask(vars_[v])
    IN /\ vars_' = [vars_ EXCEPT ![v] = r.obj]
       /\ vres' = MCall("unmask", v, NoneArg, TRUE, r.out)
       /\ UNCHANGED <<axs, ds, dres, parserVars, stationVars, gridVars>>

\* var.load(d)
MaskedLoad ==
  \E v \in DOMAIN vars_, d \in LoadArgs :
    LET h == loadVariable(Heap(axs, vars_, "None"), v, d)
    IN /\ axs' = h.axs
       /\ vars_' = h.vars
       /\ vres' = MCall("load", v, d, TRUE, h.out)
       /\ UNCHANGED <<ds, dres, parserVars, stationVars, gridVars>>

\* var.unload()
MaskedUnload ==
  \E v \in DOMAIN vars_ :
    /\ vars_' = [vars_ EXCEPT ![v] = unload(vars_[v]).obj]
    /\ vres' = MCall("unload", v, NoneArg, TRUE, "None")
    /\ UNCHANGED <<axs, ds, dres, parserVars, stationVars, gridVars>>

MaskNext ==
  \/ Mask
  \/ Unmask
  \/ MaskedLoad
  \/ MaskedUnload

SpecMask == MaskInit /\ [][MaskNext]_vars

\* ---- the collective model: c on (x, y) and d on (y,) in one Dataset ----
CollectiveInit ==
  /\ sr = None
  /\ grid = None
  /\ axs = [i \in {"X", "Y"} |->
              IF i = "X" THEN Axis("X", "x", "m", MaxSize, NoneArg)
              ELSE Axis("Y", "y", "m", LenY, NoneArg)]
  /\ \E lc \in BOOLEAN, ld \in BOOLEAN :
       vars_ = [i \in {"C", "D"} |->
                  IF i = "C"
                  THEN newVariable("C", "c", "K", <<"X", "Y">>, AttsC, axs,
                                   IF lc THEN Zeros(ShapeC) ELSE NoneArg)
                  ELSE newVariable("D", "d", "K", <<"Y">>, AttsC, axs,
                                   IF ld THEN Zeros(ShapeD) ELSE NoneArg)]
  /\ ds = [variables |-> [n \in {"c", "d"} |-> IF n = "c" THEN "C" ELSE "D"],
           axes |-> [n \in {"x", "y"} |-> IF n = "x" THEN "X" ELSE "Y"],
           dict |-> [k \in {"variables", "axes", "atts", "x", "y", "c", "d"} |->
                       CASE k = "x" -> "X" [] k = "y" -> "Y" [] k = "c" -> "C"
                         [] k = "d" -> "D" [] OTHER -> "attribute"]]
  /\ vres = [op |-> "Dataset", obj |-> "ds", arg |-> NoneArg, merge |-> TRUE,
             out |-> "None", tick |-> 0]
  /\ dres = None
  /\ rec = None /\ pc = "idle" /\ oldyear = 0 /\ oldmon = 0 /\ z = 0
  /\ data = <<>> /\ line = NoLine /\ nlines = 0

\* var.mask(m) of one Variable of the Dataset, with a mask of the length of y
MaskOne ==
  \E v \in DOMAIN vars_ :
    LET r == mask(vars_[v], MaskLeft, TRUE)
    IN /\ vars_' = [vars_ EXCEPT ![v] = r.obj]
       /\ vres' = MCall("mask", v, MaskLeft, TRUE, r.out)
       /\ UNCHANGED <<axs, ds, dres, parserVars, stationVars, gridVars>>

\* dataset.load(d)
DatasetLoad ==
  \E order \in Orders(ds), d \in LoadArgs :
    LET h == loadAll(Heap(axs, vars_, "None"), order, d)
    IN /\ axs' = h.axs
       /\ vars_' = h.vars
       /\ vres' = MCall("Dataset.load", "ds", d, TRUE, h.out)
       /\ UNCHANGED <<ds, dres, parserVars, stationVars, gridVars>>

\* dataset.unload()
DatasetUnload ==
  \E order \in Orders(ds) :
    LET h == unloadAll(Heap(axs, vars_, "None"), order)
    IN /\ axs' = h.axs
       /\ vars_' = h.vars
       /\ vres' = MCall("Dataset.unload", "ds", NoneArg, TRUE, h.out)
       /\ UNCHANGED <<ds, dres, parserVars, stationVars, gridVars>>

\* dataset.mask(m)
DatasetMask ==
  \E order \in Orders(ds), m \in MaskArgs :
    LET h == maskAll(Heap(axs, vars_, "None"), order, m)
    IN /\ axs' = h.axs
       /\ vars_' = h.vars
       /\ vres' = MCall("Dataset.mask", "ds", m, TRUE, h.out)
       /\ UNCHANGED <<ds, dres, parserVars, stationVars, gridVars>>

\* dataset.unmask()
DatasetUnmask ==
  \E order \in Orders(ds) :
    LET h == unmaskAll(Heap(axs, vars_, "None"), order)
    IN /\ axs' = h.axs
       /\ vars_' = h.vars
       /\ vres' = MCall("Dataset.unmask", "ds", NoneArg, TRUE, h.out)
       /\ UNCHANGED <<ds, dres, parserVars, stationVars, gridVars>>

CollectiveNext ==
  \/ MaskOne
  \/ DatasetLoad
  \/ DatasetUnload
  \/ DatasetMask
  \/ DatasetUnmask

SpecCollective == CollectiveInit /\ [][CollectiveNext]_vars

\* ---- claims about masks and the collective operations ----

\* C19: Dataset.load, unload, mask and unmask apply the operation of the same
\* name to every Variable of the Dataset: after Dataset.load(d) every Variable
\* holds d, after Dataset.unload() none holds data, after Dataset.mask(m) every
\* Variable of at least the dimensions of m is masked, after Dataset.unmask()
\* none is masked.
C19_AppliedToEveryVariable ==
  [][ /\ vres'.op = "Dataset.unload"
           => /\ vres'.out = "None"
              /\ \A v \in DOMAIN vars_ : ~vars_'[v].data
      /\ (vres'.op = "Dataset.mask" /\ vres'.arg.kind = "ndarray")
           => /\ vres'.out = "None"
              /\ \A v \in DOMAIN vars_ :
                   ndim(vars_[v]) >= Len(vres'.arg.shape)
                     => /\ vars_'[v].masked
                        /\ vars_'[v].data_array # Nil
                        /\ IsMaskedArray(Get(vars_'[v].data_array))
      /\ vres'.op = "Dataset.unmask"
           => /\ vres'.out = "None"
              /\ \A v \in DOMAIN vars_ : ~vars_'[v].masked
      /\ (vres'.op = "Dataset.load" /\ vres'.out = "None")
           => \A v \in DOMAIN vars_ : vars_'[v].data_array = Some(vres'.arg) ]_vars

\* the Variable holds a masked array
HoldsMask(o) ==
  o.data /\ o.masked /\ o.data_array # Nil /\ IsMaskedArray(Get(o.data_array))

\* the array m has the trailing dimensions of the Variable
Fits(o, m) ==
  /\ m.kind = "ndarray"
  /\ o.shape # Nil
  /\ Len(m.shape) <= Len(Get(o.shape).dims)
  /\ \A i \in 1..Len(m.shape) :
       Get(o.shape).dims[Len(Get(o.shape).dims) - Len(m.shape) + i] = m.shape[i]

\* cell i (row-major) of m broadcast over the leading dimension of dims
Leftward(m, dims, i) ==
  IF Len(m.shape) = Len(dims) THEN m.cells[i] ELSE m.cells[((i - 1) % dims[2]) + 1]

\* C20: mask(m, merge=True) on a Variable that holds a masked array leaves the
\* element-wise OR of the mask it had and of m, m broadcast over the leading
\* dimensions, so that no masked cell becomes unmasked; with merge=False the
\* mask it had is replaced by m.
C20_MergeIsOr ==
  [][ (/\ vres'.op = "mask"
       /\ HoldsMask(vars_[vres'.obj])
       /\ Fits(vars_[vres'.obj], vres'.arg))
        => /\ vres'.out = "None"
           /\ HoldsMask(vars_'[vres'.obj])
           /\ \A i \in 1..Size(Get(vars_[vres'.obj].shape).dims) :
                Get(vars_'[vres'.obj].data_array).mask[i] =
                  IF vres'.merge
                  THEN \/ Get(vars_[vres'.obj].data_array).mask[i]
                       \/ Leftward(vres'.arg, Get(vars_[vres'.obj].shape).dims, i)
                  ELSE Leftward(vres'.arg, Get(vars_[vres'.obj].shape).dims, i) ]_vars

\* the mask of the right column merged with the mask of the left column:
\* every cell is masked
C20_AllMaskedByMerge ==
  /\ vres.op = "mask"
  /\ vres.obj = "C"
  /\ vres.merge
  /\ vres.arg = MaskLeft
  /\ vres.out = "None"
  /\ HoldsMask(vars_["C"])
  /\ \A i \in 1..Size(ShapeC) : Get(vars_["C"].data_array).mask[i]

\* C29: after any calls of load, unload, mask and unmask the masked flag of a
\* Variable is set only while the Variable holds data and its array is a
\* masked array.
C29_MaskedFlagTellsMaskedArray ==
  \A v \in DOMAIN vars_ : vars_[v].masked => HoldsMask(vars_[v])

(***************************************************************************)
(* Part 7: Variable.getArray(axes=...) (base.py 296-335)                   *)
(***************************************************************************)
\* base.py 216-225: Variable.hasAxis(axis), axis a name or an object; as holds
\* the Axis objects
variableHasAxis(o, as, e) ==
  IF e.kind = "str" THEN \E i \in 1..Len(o.axes) : as[o.axes[i]].name = e.cells[1]
  ELSE IF e.kind = "Variable" THEN \E i \in 1..Len(o.axes) : o.axes[i] = e.cells[1]
  ELSE FALSE

\* base.py 236-245: the index (from 0) of the first axis that is meant
axisIndex(o, as, e) ==
  IF e.kind = "str"
  THEN (CHOOSE i \in 1..Len(o.axes) :
          /\ as[o.axes[i]].name = e.cells[1]
          /\ \A j \in 1..(i - 1) : as[o.axes[j]].name # e.cells[1]) - 1
  ELSE (CHOOSE i \in 1..Len(o.axes) : o.axes[i] = e.cells[1]) - 1

\* base.py 315: (ax in axes) or (ax.name in axes) for the own axis ax
inAxes(ax, as, T) ==
  \E i \in 1..Len(T) :
    \/ T[i].kind = "Variable" /\ T[i].cells[1] = ax
    \/ T[i].kind = "str" /\ T[i].cells[1] = as[ax].name

\* base.py 317: [self.axisIndex(ax) for ax in axes if self.hasAxis(ax)]
axisOrder(o, as, T) ==
  LET f[i \in 0..Len(T)] ==
        IF i = 0 THEN <<>>
        ELSE IF variableHasAxis(o, as, T[i]) THEN Append(f[i - 1], axisIndex(o, as, T[i]))
        ELSE f[i - 1]
  IN f[Len(T)]

\* base.py 318: np.transpose(a, axes=order) of an array of one or two
\* dimensions; an order that is not a permutation of the dimensions is refused
IsPermutation(order, n) ==
  Len(order) = n /\ \A k \in 0..(n - 1) : \E i \in 1..n : order[i] = k

transposeKeepingOrder(a, order) ==
  IF ~IsPermutation(order, Len(a.shape)) THEN Value("ValueError", <<>>, "", <<>>)
  ELSE a

transpose(a, order) ==
  IF ~IsPermutation(order, Len(a.shape)) THEN Value("ValueError", <<>>, "", <<>>)
  ELSE IF order = <<1, 0>>
  THEN Value("ndarray", <<a.shape[2], a.shape[1]>>, a.dtype,
             [k \in 1..Size(a.shape) |->
                a.cells[((k - 1) % a.shape[1]) * a.shape[2] + ((k - 1) \div a.shape[1]) + 1]])
  ELSE a

\* base.py 320-324: one entry per target axis, the next dimension of the
\* transposed array for an axis the Variable has and 1 for another
targetShape(o, as, T, a) ==
  LET f[i \in 0..Len(T)] ==
        IF i = 0 THEN [shape |-> <<>>, z |-> 0]
        ELSE IF variableHasAxis(o, as, T[i])
        THEN [shape |-> Append(f[i - 1].shape, a.shape[f[i - 1].z + 1]),
              z |-> f[i - 1].z + 1]
        ELSE [shape |-> Append(f[i - 1].shape, 1), z |-> f[i - 1].z]
  IN f[Len(T)]

\* what a call returns or raises
Returns(a) == [out |-> "None", ret |-> Some(a)]
Raises(e) == [out |-> e, ret |-> Nil]

\* base.py 318-326; a is the transposed array
reshaped(o, as, T, a) ==
  IF a.kind = "ValueError" THEN Raises("ValueError")
  ELSE IF targetShape(o, as, T, a).z # Len(a.shape) THEN Raises("AssertionError")
  ELSE Returns(Value("ndarray", targetShape(o, as, T, a).shape, a.dtype, a.cells))

\* base.py 304-310: the copy of the array, filled where the Variable is masked
dataCopy(o) ==
  IF o.masked THEN filled(Get(o.data_array))
  ELSE Value("ndarray", Get(o.data_array).shape, Get(o.data_array).dtype,
             Get(o.data_array).cells)

\* base.py 296-335: Variable.getArray(axes=T), T a tuple of Axis objects and names
getArrayAxes(o, as, T) ==
  IF getArray(o, TRUE) # "ndarray" THEN Raises(getArray(o, TRUE))
  ELSE IF \E i \in 1..Len(o.axes) : ~inAxes(o.axes[i], as, T) THEN Raises("AssertionError")
  ELSE reshaped(o, as, T, transpose(dataCopy(o), axisOrder(o, as, T)))

\* ---- inputs ----
\* the cells 1, 2, ... in row-major order
Ramp(shape) == Value("ndarray", shape, "float64", [i \in 1..Size(shape) |-> Cell(i)])
ShapeG == <<MaxSize + 1, LenY>>
\* the entries of the target tuple: the axes of c, an axis z, another Axis
\* named 'x', and the names of the axes of c
TargetEntries ==
  {Ref("X"), Ref("Y"), Ref("Z"), Ref("X2"), String("x"), String("y")}
Targets ==
  {<<>>} \cup {<<e>> : e \in TargetEntries}
         \cup {<<e1, e2>> : e1 \in TargetEntries, e2 \in TargetEntries}
         \cup {<<e1, e2, e3>> : e1 \in TargetEntries, e2 \in TargetEntries,
                                e3 \in TargetEntries}

\* ---- the getArray model: c on (x, y), masked, unmasked and unloaded ----
GetArrayInit ==
  /\ sr = None
  /\ grid = None
  /\ axs = [i \in {"X", "Y", "Z", "X2"} |->
              CASE i = "X" -> Axis("X", "x", "m", MaxSize + 1, NoneArg)
                [] i = "Y" -> Axis("Y", "y", "m", LenY, NoneArg)
                [] i = "Z" -> Axis("Z", "z", "m", MaxSize, NoneArg)
                [] i = "X2" -> Axis("X2", "x", "m", MaxSize, NoneArg)]
  /\ \E lc \in BOOLEAN :
       vars_ = [i \in {"C"} |->
                  newVariable("C", "c", "K", <<"X", "Y">>, AttsC, axs,
                              IF lc THEN Ramp(ShapeG) ELSE NoneArg)]
  /\ vres = [op |-> "Variable", obj |-> "C", arg |-> NoneArg, merge |-> TRUE,
             out |-> "None", tick |-> 0]
  /\ ds = None /\ dres = None
  /\ rec = None /\ pc = "idle" /\ oldyear = 0 /\ oldmon = 0 /\ z = 0
  /\ data = <<>> /\ line = NoLine /\ nlines = 0

\* var.getArray(axes=T)
GetArray ==
  \E v \in DOMAIN vars_, T \in Targets :
    LET r == getArrayAxes(vars_[v], axs, T)
    IN /\ vres' = [op |-> "getArray", obj |-> v, arg |-> T, out |-> r.out,
                   ret |-> r.ret, tick |-> 1 - vres.tick]
       /\ UNCHANGED <<axs, vars_, ds, dres, parserVars, stationVars, gridVars>>

GetArrayNext ==
  \/ GetArray
  \/ MaskOne
  \/ Unmask
  \/ MaskedUnload

SpecGetArray == GetArrayInit /\ [][GetArrayNext]_vars

\* ---- C21 ----
\* the own axis of the Variable that the entry e of a target tuple denotes, by
\* identity for an object and by name for a string, or {} for none
Denoted(o, as, e) ==
  {i \in 1..Len(o.axes) :
     \/ e.kind = "Variable" /\ e.cells[1] = o.axes[i]
     \/ e.kind = "str" /\ e.cells[1] = as[o.axes[i]].name}

\* the Variable holds an array that getArray can hand out
Readable(o) ==
  o.data /\ (o.masked => IsMaskedArray(Get(o.data_array)))

\* C21: getArray(axes=T) on a Variable that holds data, T naming no axis of the
\* Variable twice: if an axis of the Variable is absent from T the call raises
\* an error; otherwise it returns an array with one dimension per entry of T,
\* in the order of T, dimension i of the length of the Variable's axis that
\* T[i] denotes and of length 1 where T[i] denotes none.
C21_AlignedWithTargetAxes ==
  [][ (/\ vres'.op = "getArray"
       /\ Readable(vars_[vres'.obj])
       /\ \A i, j \in 1..Len(vres'.arg) :
            i # j => Denoted(vars_[vres'.obj], axs, vres'.arg[i])
                       \cap Denoted(vars_[vres'.obj], axs, vres'.arg[j]) = {})
        => IF \E k \in 1..Len(vars_[vres'.obj].axes) :
                \A i \in 1..Len(vres'.arg) :
                  k \notin Denoted(vars_[vres'.obj], axs, vres'.arg[i])
           THEN vres'.out # "None"
           ELSE /\ vres'.out = "None"
                /\ Len(Get(vres'.ret).shape) = Len(vres'.arg)
                /\ \A i \in 1..Len(vres'.arg) :
                     Get(vres'.ret).shape[i] =
                       IF Denoted(vars_[vres'.obj], axs, vres'.arg[i]) = {} THEN 1
                       ELSE Get(vars_[vres'.obj].shape).dims[
                              CHOOSE k \in Denoted(vars_[vres'.obj], axs, vres'.arg[i]) : TRUE]
     ]_vars

\* c on (x, y) handed out for (y, z, 'x'): the dimensions of y, 1 and x
C21_TransposedWithSingleton ==
  /\ vres.op = "getArray"
  /\ vres.arg = <<Ref("Y"), Ref("Z"), String("x")>>
  /\ vres.out = "None"
  /\ Get(vres.ret).shape = <<LenY, 1, MaxSize + 1>>
  /\ Get(vres.ret).cells[2] = Cell(LenY + 1)

(***************************************************************************)
(* Part 8: the construction of an Axis (base.py 492-503, 521-538)          *)
(***************************************************************************)
\* base.py 492-503: Axis(name='x', units='m', length=length, coord=c)
newAxis(id, name, units, length, c) ==
  initAxis([Object(id, name, units, <<id>>,
                   [k \in {"name", "units"} |-> IF k = "name" THEN name ELSE units])
              EXCEPT !.len = length,
                     !.shape = IF length # 0 THEN Some(ListShape(<<length>>)) ELSE Nil],
           length, c)

\* ---- inputs: the coordinate arguments ----
\* (start, stop, num) with whole-numbered points
Triples ==
  {Tuple(<<s, s + k * (n - 1), n>>) : s \in 0..1, k \in 0..2, n \in 1..(MaxSize + 1)}
FlatTuples == {Tuple(<<>>), Tuple(<<5>>), Tuple(<<5, 5>>), Tuple(<<0, 49>>), Tuple(<<4, 3, 2, 1>>)}
FlatLists == {List(<<>>), List(<<7>>), List(<<5, 6>>), List(<<1, 3, 3>>), List(<<4, 3, 2, 1>>)}
FlatArrays == {Vector([i \in 1..n |-> 2 * i], "float64") : n \in 1..(MaxSize + 1)}
OtherArgs == {Filled(<<1, 1>>, "float64", 0), Scalar(1), String("x")}
CoordArgs == Triples \cup FlatTuples \cup FlatLists \cup FlatArrays \cup OtherArgs

\* ---- the construction model: x = Axis(...), built again and again ----
ConstructInit ==
  /\ sr = None
  /\ grid = None
  /\ \E lx \in {0} \cup Sizes :
       axs = [i \in {"X"} |-> newAxis("X", "x", "m", lx, NoneArg).obj]
  /\ vars_ = None
  /\ vres = [op |-> "Axis", obj |-> "X", arg |-> NoneArg, out |-> "None", tick |-> 0]
  /\ rec = None /\ pc = "idle" /\ oldyear = 0 /\ oldmon = 0 /\ z = 0
  /\ data = <<>> /\ line = NoLine /\ nlines = 0
  /\ ds = None /\ dres = None

\* x = Axis(name='x', units='m', length=lx, coord=c)
Construct ==
  \E lx \in {0} \cup Sizes, c \in CoordArgs :
    LET r == newAxis("X", "x", "m", lx, c)
    IN /\ axs' = [axs EXCEPT !["X"] = r.obj]
       /\ vres' = VCall("Axis", "X", c, r.out)
       /\ UNCHANGED <<vars_, parserVars, datasetVars, stationVars, gridVars>>

ConstructNext ==
  \/ Construct
  \/ AxisUnload
  \/ UpdateLength

SpecConstruct == ConstructInit /\ [][ConstructNext]_vars

\* ---- C22 ----
\* the Axis x holds the coordinate vector of these cells
HasCoord(cells) ==
  /\ axs'["X"].data
  /\ axs'["X"].coord # Nil
  /\ Get(axs'["X"].coord).cells = cells
  /\ Get(axs'["X"].coord).shape = <<Len(cells)>>
  /\ axs'["X"].len = Len(cells)

\* the cells are num values from start to stop in equal steps
Spaced(cells, start, stop, num) ==
  /\ Len(cells) = num
  /\ num > 0 => cells[1] = start
  /\ num > 1 => cells[num] = stop
  /\ \A i \in 2..(num - 1) : cells[i + 1] - cells[i] = cells[i] - cells[i - 1]

\* the argument is a flat sequence of numbers: a tuple, a list or an array of
\* one dimension
Flat(c) == c.kind \in {"tuple", "list"} \/ (c.kind = "ndarray" /\ Len(c.shape) = 1)

\* C22 as stated: a tuple of three entries is (start, stop, num) and gives num
\* linearly spaced values; any other flat sequence of k numbers gives an Axis of
\* length k with these values; any other argument raises TypeError.
C22_TripleOrDirect ==
  [][ vres'.op = "Axis" =>
        IF vres'.arg.kind = "tuple" /\ Len(vres'.arg.cells) = 3
        THEN /\ vres'.out = "None"
             /\ axs'["X"].coord # Nil
             /\ Spaced(Get(axs'["X"].coord).cells, vres'.arg.cells[1], vres'.arg.cells[2],
                       vres'.arg.cells[3])
        ELSE IF Flat(vres'.arg)
        THEN vres'.out = "None" /\ HasCoord(vres'.arg.cells)
        ELSE vres'.out = "TypeError" ]_vars

\* C22 as the code has it: a tuple of one to three entries is handed to
\* np.linspace, so that three entries (start, stop, num) give num linearly
\* spaced values, two entries (start, stop) give 50 and one entry raises
\* TypeError; any other tuple, a list and an array of one dimension, of k
\* values, give an Axis of length k with these values; any other argument
\* raises TypeError.
C22_UpToThreeAreLinspace ==
  [][ vres'.op = "Axis" =>
        IF vres'.arg.kind = "tuple" /\ Len(vres'.arg.cells) \in 2..3
        THEN /\ vres'.out = "None"
             /\ axs'["X"].coord # Nil
             /\ HasCoord(Get(axs'["X"].coord).cells)
             /\ Spaced(Get(axs'["X"].coord).cells, vres'.arg.cells[1], vres'.arg.cells[2],
                       IF Len(vres'.arg.cells) = 3 THEN vres'.arg.cells[3] ELSE 50)
        ELSE IF vres'.arg.kind = "tuple" /\ Len(vres'.arg.cells) = 1
        THEN vres'.out = "TypeError"
        ELSE IF Flat(vres'.arg)
        THEN vres'.out = "None" /\ HasCoord(vres'.arg.cells)
        ELSE vres'.out = "TypeError" ]_vars

\* Axis(coord=(0, 49)) has 50 points
C22_PairGivesFifty ==
  /\ vres.op = "Axis"
  /\ vres.arg = Tuple(<<0, 49>>)
  /\ vres.out = "None"
  /\ axs["X"].len = 50
  /\ Get(axs["X"].coord).cells[50] = 49

(***************************************************************************)
(* Part 9: getWRFgrid (WRF.py 47-119)                                      *)
(***************************************************************************)
\* ---- bound of the grid model ----
MaxDom == 3            \* the domains of the experiment: 1 .. MaxDom

\* Coordinates, spacings and parent start indices are kept in halves: the
\* number x is held as 2 * x.
Half(x) == 2 * x

\* the metadata of a domain file: the attributes of the NetCDF file and the
\* lengths of its horizontal dimensions; CX, CY are the projected centre point
\* (WRF.py 73-76), in halves
Meta(gid, parent, istart, jstart, dx, dy, nx, ny) ==
  [GRID_ID |-> gid, PARENT_ID |-> parent, I_PARENT_START |-> istart,
   J_PARENT_START |-> jstart, DX |-> dx, DY |-> dy, nx |-> nx, ny |-> ny,
   CX |-> 0, CY |-> 0]

\* WRF.py 127-132: the domains, an iterable of integers, have to be sorted
checkDomains(domains) ==
  IF \A i \in 1..(Len(domains) - 1) : domains[i] <= domains[i + 1]
  THEN "None" ELSE "IndexError"

\* max(domains)
Max(seq) == CHOOSE m \in {seq[i] : i \in 1..Len(seq)} : \A i \in 1..Len(seq) : seq[i] <= m

\* n in domains
InDomains(n, domains) == \E i \in 1..Len(domains) : domains[i] = n

\* WRF.py 63-67 looking for the files of the requested domains alone
checkRequestedFiles(files, domains) ==
  IF \E n \in 1..Max(domains) : InDomains(n, domains) /\ files[n] = Nil
  THEN "IOError" ELSE "None"

\* WRF.py 61-67: the file of every domain up to the largest one has to exist
checkFiles(files, domains) ==
  IF \E n \in 1..Max(domains) : files[n] = Nil THEN "IOError" ELSE "None"

\* WRF.py 87-91: the geotransform of the first domain
firstGeotransform(dn) ==
  <<(0 - (dn.nx + 1) * dn.DX) \div 2 + dn.CX, dn.DX, 0,
    (0 - (dn.ny + 1) * dn.DY) \div 2 + dn.CY, 0, dn.DY>>

\* WRF.py 93, 117: GridDefinition(name, projection, geotransform, size); the
\* name stands for the domain, the projection is the same for all
GridDefinition(n, geotransform, dn) ==
  [domain |-> n, geotransform |-> geotransform, size |-> <<dn.nx, dn.ny>>]

\* the parent taken to be the domain before
pidPrevious(dn) == dn.GRID_ID - 2

\* WRF.py 105: the index of the parent in the list of geotransforms
pid(dn) == dn.PARENT_ID - 1

\* list[i] of Python for an index from 0 within the list
Item(list, i) == list[i + 1]

\* the origin of a domain that starts a whole cell of the parent earlier
nestedOriginWholeCell(p0, start, pd, d) ==
  p0 + ((start - Half(1)) * pd) \div 2 - d \div 2

\* WRF.py 109-110: px0 + float(I_PARENT_START - 0.5)*pdx - 0.5*dx
nestedOrigin(p0, start, pd, d) ==
  p0 + ((start - 1) * pd) \div 2 - d \div 2

\* WRF.py 107-112: the geotransform of a nested domain; p is the geotransform of
\* its parent
makeGeotransform(dn, p) ==
  <<nestedOrigin(p[1], dn.I_PARENT_START, p[2], dn.DX), dn.DX, 0,
    nestedOrigin(p[4], dn.J_PARENT_START, p[6], dn.DY), 0, dn.DY>>

nestedGeotransform(dn, geotransforms) ==
  makeGeotransform(dn, Item(geotransforms, pid(dn)))

\* ---- inputs ----
\* the requested domains: the ascending lists, lists out of order, and a list
\* that names a domain twice
AscendingLists ==
  {d \in UNION {[1..k -> 1..MaxDom] : k \in 1..MaxDom} :
     \A i \in 1..(Len(d) - 1) : d[i] < d[i + 1]}
DomainLists ==
  AscendingLists \cup {<<m, 1>> : m \in 2..MaxDom} \cup {<<MaxDom, MaxDom>>}

\* the file of domain n: missing, or of a first domain of 3 km cells and nested
\* domains of 1 km cells that start at (10.5, 5.5) of the parent, which is any
\* domain up to n itself, or with the id of another domain
DomainFiles(n) ==
  IF n = 1
  THEN {Nil, Some(Meta(1, 1, Half(1), Half(1), Half(3000), Half(3000), 9, 5))}
  ELSE {Nil, Some(Meta(n - 1, 1, 21, 11, Half(1000), Half(1000), 6, 6))}
       \cup {Some(Meta(n, p, 21, 11, Half(1000), Half(1000), 6, 6)) : p \in 1..n}

FileSets == {f \in [1..MaxDom -> UNION {DomainFiles(n) : n \in 1..MaxDom}] :
               \A n \in 1..MaxDom : f[n] \in DomainFiles(n)}

\* ---- the grid model: one call of getWRFgrid ----
GridInit ==
  /\ sr = None
  /\ \E domains \in DomainLists, files \in FileSets :
       grid = [domains |-> domains, files |-> files, pc |-> "called", n |-> 0,
               geotransforms |-> <<>>, griddefs |-> <<>>]
  /\ ds = None /\ dres = None
  /\ axs = None /\ vars_ = None /\ vres = None
  /\ rec = None /\ pc = "idle" /\ oldyear = 0 /\ oldmon = 0 /\ z = 0
  /\ data = <<>> /\ line = NoLine /\ nlines = 0

\* WRF.py 51-67: the arguments and the files are checked
CheckFiles ==
  /\ grid.pc = "called"
  /\ grid' = [grid EXCEPT
                !.pc = IF checkDomains(grid.domains) # "None" THEN checkDomains(grid.domains)
                       ELSE IF checkFiles(grid.files, grid.domains) # "None"
                       THEN checkFiles(grid.files, grid.domains)
                       ELSE "first"]
  /\ UNCHANGED <<parserVars, datasetVars, variableVars, stationVars>>

\* WRF.py 69-99: the first domain
FirstDomain ==
  /\ grid.pc = "first"
  /\ LET dn == Get(grid.files[1])
         geotransform == firstGeotransform(dn)
     IN grid' = [grid EXCEPT
                   !.geotransforms = <<geotransform>>,
                   !.griddefs = IF InDomains(1, grid.domains)
                                THEN <<GridDefinition(1, geotransform, dn)>> ELSE <<>>,
                   !.n = 2,
                   !.pc = IF Max(grid.domains) > 1 THEN "nested" ELSE "returned"]
  /\ UNCHANGED <<parserVars, datasetVars, variableVars, stationVars>>

\* WRF.py 101-119: the nested domain n, and the return after the last one
NestedDomain ==
  /\ grid.pc = "nested"
  /\ LET dn == Get(grid.files[grid.n])
     IN IF grid.n # dn.GRID_ID
        THEN grid' = [grid EXCEPT !.pc = "DatasetError"]
        ELSE IF pid(dn) >= Len(grid.geotransforms)
        THEN grid' = [grid EXCEPT !.pc = "IndexError"]
        ELSE grid' = [grid EXCEPT
                        !.geotransforms =
                           Append(@, nestedGeotransform(dn, grid.geotransforms)),
                        !.griddefs =
                           IF InDomains(grid.n, grid.domains)
                           THEN Append(@, GridDefinition(
                                  grid.n, nestedGeotransform(dn, grid.geotransforms), dn))
                           ELSE @,
                        !.n = grid.n + 1,
                        !.pc = IF grid.n = Max(grid.domains) THEN "returned" ELSE "nested"]
  /\ UNCHANGED <<parserVars, datasetVars, variableVars, stationVars>>

GridNext ==
  \/ CheckFiles
  \/ FirstDomain
  \/ NestedDomain

SpecGrid == GridInit /\ [][GridNext]_vars

\* ---- C23, C24, C25 ----
\* the domains requested, without repetition
Requested == {grid.domains[i] : i \in 1..Len(grid.domains)}

\* C23: the geotransforms are computed for the domains 1, 2, ... in this order,
\* and the origin of every nested domain n is
\* px0 + (I_PARENT_START - 0.5)*pdx - 0.5*dx, and likewise in y, with
\* (px0, pdx, py0, pdy) out of the geotransform stored for the domain PARENT_ID,
\* which is one of the domains before n.
C23_OriginFromParentGeotransform ==
  /\ grid.pc = "nested" => Len(grid.geotransforms) = grid.n - 1
  /\ \A n \in 2..Len(grid.geotransforms) :
       /\ Get(grid.files[n]).PARENT_ID \in 1..(n - 1)
       /\ grid.geotransforms[n][1] =
            grid.geotransforms[Get(grid.files[n]).PARENT_ID][1]
              + ((Get(grid.files[n]).I_PARENT_START - 1)
                   * grid.geotransforms[Get(grid.files[n]).PARENT_ID][2]) \div 2
              - Get(grid.files[n]).DX \div 2
       /\ grid.geotransforms[n][4] =
            grid.geotransforms[Get(grid.files[n]).PARENT_ID][4]
              + ((Get(grid.files[n]).J_PARENT_START - 1)
                   * grid.geotransforms[Get(grid.files[n]).PARENT_ID][6]) \div 2
              - Get(grid.files[n]).DY \div 2

\* the last domain is nested in domain 1, not in the domain before it, which
\* has cells of 1 km
C23_NestedInFirstDomain ==
  /\ grid.pc = "returned"
  /\ Len(grid.geotransforms) = MaxDom
  /\ Get(grid.files[MaxDom]).PARENT_ID = 1
  /\ grid.geotransforms[MaxDom][1] = Half(14500)
  /\ grid.geotransforms[MaxDom - 1][2] = Half(1000)

\* domain 2 starts at (10.5, 5.5) of a parent with the origin (-15000, -9000)
\* and the spacing (3000, 3000), and has the spacing (1000, 1000)
ExampleGrid ==
  /\ Len(grid.geotransforms) >= 2
  /\ Get(grid.files[2]).I_PARENT_START = 21
  /\ Get(grid.files[2]).J_PARENT_START = 11
  /\ Get(grid.files[2]).DX = Half(1000)
  /\ Get(grid.files[2]).DY = Half(1000)
  /\ grid.geotransforms[Get(grid.files[2]).PARENT_ID]
       = <<Half(-15000), Half(3000), 0, Half(-9000), 0, Half(3000)>>

\* C24 as stated: in the example the origin of domain 2 is x = 13000.0.
C24_OriginIs13000 == ExampleGrid => grid.geotransforms[2][1] = Half(13000)

\* C24 as the code has it: in the example the origin of domain 2 is
\* x = -15000 + (10.5 - 0.5)*3000 - 500 = 14500.0.
C24_OriginIs14500 == ExampleGrid => grid.geotransforms[2][1] = Half(14500)

\* the example has been computed
C24_ExampleComputed ==
  /\ ExampleGrid
  /\ grid.pc = "returned"
  /\ grid.domains = <<2>>
  /\ grid.griddefs[1].geotransform = <<Half(14500), Half(1000), 0, Half(5500), 0, Half(1000)>>

\* C25: getWRFgrid returns one grid definition per requested domain, in
\* ascending order of the domains, and none for another domain; it raises
\* IOError when the file of any domain up to the largest requested one is
\* missing, requested or not.
C25_RequestedOnlyAllFilesNeeded ==
  /\ grid.pc = "returned"
       => /\ {grid.griddefs[i].domain : i \in 1..Len(grid.griddefs)} = Requested
          /\ Len(grid.griddefs) = Cardinality(Requested)
          /\ \A i \in 1..(Len(grid.griddefs) - 1) :
               grid.griddefs[i].domain < grid.griddefs[i + 1].domain
  /\ (/\ grid.pc \notin {"called", "IndexError"}
      /\ \E n \in 1..Max(grid.domains) : grid.files[n] = Nil)
       => grid.pc = "IOError"

\* the first and the last domain were requested and the domains between them
\* were read and left out
C25_MiddleDomainsDiscarded ==
  /\ grid.pc = "returned"
  /\ grid.domains = <<1, MaxDom>>
  /\ Len(grid.geotransforms) = MaxDom
  /\ Len(grid.griddefs) = 2
  /\ grid.griddefs[2].domain = MaxDom

====
